---- MODULE Spec2Model ----
(***************************************************************************)
(* prxy: a single-endpoint reverse proxy (src/main.go).                    *)
(*                                                                         *)
(* The module models the handling of one POST /v1/messages request by      *)
(* claudeProxyHandler: admission (extractAPIKey, validateAPIKey),          *)
(* normalization of the JSON body, construction and dispatch of the        *)
(* upstream request, and the relay of the upstream response to the caller  *)
(* (buffered or streamed).  Further specifications run admission alone on  *)
(* all short credentials and allow-lists, put the router of main in front  *)
(* of the handlers (with fairness, for termination), interleave the        *)
(* handling of two requests, and follow main from its select to its        *)
(* return (signals, failure of the listener, server.Shutdown).             *)
(*                                                                         *)
(* Strings the code inspects character by character (credentials, the      *)
(* allow-list, header values) are sequences of one-character strings.      *)
(* Header names are TLA+ strings; the two name conversions the program     *)
(* relies on (canonicalisation by net/http, strings.ToLower) are tables    *)
(* over the names the model uses.                                          *)
(***************************************************************************)
EXTENDS Integers, Sequences, FiniteSets, TLC

VARIABLES
    allowedAPIKeysStr, \* os.Getenv("ALLOWED_API_KEYS"), fixed for the process
    claudeURL,         \* os.Getenv("CLAUDE_API_URL") or the default: the upstream
    pc,                \* position of the handler
    rRequestLine,      \* r.Method and r.URL.Path
    rHeader,           \* r.Header: canonical name -> sequence of values
    apiKey,            \* result of extractAPIKey(r)
    admitted,          \* result of validateAPIKey(apiKey); FALSE until Admission ran
    rBodyOnWire,       \* r.Body: the document the inbound request carries
    rBody,             \* the document io.ReadAll(r.Body) returned
    requestData,       \* the decoded map[string]interface{}
    streamRequested,   \* the flag of main.go:305
    proxyReq,          \* the upstream request being built / sent
    upstreamCalls,     \* number of client.Do calls issued for this request
    doErr,             \* err of client.Do: "nil" or the cause of the failure
    resp,              \* the upstream response client.Do returned
    upPos,             \* bytes of resp.Body consumed so far
    responseBody,      \* result of io.ReadAll(resp.Body) in the buffered branch
    buffer,            \* the read buffer of the stream loop
    n,                 \* n of the last resp.Body.Read
    readErr,           \* err of the last read of resp.Body: "nil", "EOF", "err"
                       \* (the connection broke), "deadline" (client.Timeout)
    relay,             \* "none", "BufferedRelay", "StreamRelay"
    canFlush,          \* does w implement http.Flusher
    w,                 \* the http.ResponseWriter
    writeErr,          \* a w.Write of the stream loop returned an error
    other,             \* the locals of a second request in flight, whose goroutine
                       \* is not running: a record of the variables above but
                       \* allowedAPIKeysStr
    process            \* main and the goroutine it starts: the position of main,
                       \* the state of server.ListenAndServe, ctx, signalChan

\* the variables of the handling of requests
handlerVars ==
    << allowedAPIKeysStr, claudeURL, rRequestLine, rBodyOnWire, doErr, pc, rHeader,
       apiKey, admitted, rBody, requestData,
       streamRequested, proxyReq, upstreamCalls, resp, upPos, responseBody,
       buffer, n, readErr, relay, canFlush, w, writeErr, other >>

vars == << process, handlerVars >>

(***************************************************************************)
(* Bounds of the model.                                                    *)
(***************************************************************************)
MaxBody == 3       \* longest upstream response body, in bytes

(***************************************************************************)
(* Program constants.                                                      *)
(***************************************************************************)
StatusOK == 200
StatusBadRequest == 400
StatusUnauthorized == 401
StatusInternalServerError == 500
\* the read buffer of the stream loop: 1024 bytes in the program, scaled to 2
BufferSize == 2

anthropicVersion == << "2", "0", "2", "3", "-", "0", "6", "-", "0", "1" >>
BearerPrefix == << "B", "e", "a", "r", "e", "r", " " >>
ApplicationJSON ==
    << "a", "p", "p", "l", "i", "c", "a", "t", "i", "o", "n", "/", "j", "s", "o", "n" >>
TextEventStream ==
    << "t", "e", "x", "t", "/", "e", "v", "e", "n", "t", "-", "s", "t", "r", "e", "a", "m" >>
NoCache == << "n", "o", "-", "c", "a", "c", "h", "e" >>
KeepAlive == << "k", "e", "e", "p", "-", "a", "l", "i", "v", "e" >>
EmptyString == << >>

Min(a, b) == IF a < b THEN a ELSE b

(***************************************************************************)
(* strings                                                                 *)
(***************************************************************************)
HasPrefix(s, prefix) ==
    /\ Len(s) >= Len(prefix)
    /\ SubSeq(s, 1, Len(prefix)) = prefix

TrimPrefix(s, prefix) ==
    IF HasPrefix(s, prefix) THEN SubSeq(s, Len(prefix) + 1, Len(s)) ELSE s

IsSpace(c) == c \in { " ", "\t", "\n", "\r" }

RECURSIVE TrimLeft(_)
TrimLeft(s) ==
    IF s # << >> /\ IsSpace(Head(s)) THEN TrimLeft(Tail(s)) ELSE s

RECURSIVE TrimRight(_)
TrimRight(s) ==
    IF s # << >> /\ IsSpace(s[Len(s)]) THEN TrimRight(SubSeq(s, 1, Len(s) - 1)) ELSE s

TrimSpace(s) == TrimRight(TrimLeft(s))

\* strings.Split(s, ","): the pieces between the commas, empty pieces kept
RECURSIVE SplitFrom(_, _, _)
SplitFrom(s, i, cur) ==
    IF i > Len(s) THEN << cur >>
    ELSE IF s[i] = "," THEN << cur >> \o SplitFrom(s, i + 1, << >>)
    ELSE SplitFrom(s, i + 1, Append(cur, s[i]))

Split(s) == SplitFrom(s, 1, << >>)

(***************************************************************************)
(* http.Header                                                             *)
(***************************************************************************)
\* textproto.CanonicalMIMEHeaderKey, on the names of the model
CanonicalMIMEHeaderKey(name) ==
    CASE name \in { "x-api-key", "X-API-KEY", "X-Api-Key" } -> "X-Api-Key"
      [] name \in { "authorization", "Authorization" } -> "Authorization"
      [] name \in { "anthropic-version", "ANTHROPIC-VERSION", "Anthropic-Version" }
            -> "Anthropic-Version"
      [] name \in { "anthropic-beta", "Anthropic-Beta" } -> "Anthropic-Beta"
      [] name \in { "content-type", "Content-Type" } -> "Content-Type"
      [] name \in { "x-other", "X-Other" } -> "X-Other"
      [] name \in { "cookie", "Cookie" } -> "Cookie"
      [] name \in { "cache-control", "Cache-Control" } -> "Cache-Control"
      [] name \in { "connection", "Connection" } -> "Connection"
      [] name \in { "x-up", "X-Up" } -> "X-Up"
      [] OTHER -> name

\* strings.ToLower, on the names of the model
ToLower(name) ==
    CASE name \in { "x-api-key", "X-API-KEY", "X-Api-Key" } -> "x-api-key"
      [] name \in { "authorization", "Authorization" } -> "authorization"
      [] name \in { "anthropic-version", "ANTHROPIC-VERSION", "Anthropic-Version" }
            -> "anthropic-version"
      [] name \in { "anthropic-beta", "Anthropic-Beta" } -> "anthropic-beta"
      [] name \in { "content-type", "Content-Type" } -> "content-type"
      [] name \in { "x-other", "X-Other" } -> "x-other"
      [] name \in { "cookie", "Cookie" } -> "cookie"
      [] name \in { "cache-control", "Cache-Control" } -> "cache-control"
      [] name \in { "connection", "Connection" } -> "connection"
      [] name \in { "x-up", "X-Up" } -> "x-up"
      [] OTHER -> name

EmptyHeader == [k \in {} |-> << >>]

\* Header.Get: the first value of the canonicalised name, "" when there is none
HeaderGet(h, name) ==
    LET k == CanonicalMIMEHeaderKey(name)
    IN  IF k \in DOMAIN h /\ h[k] # << >> THEN h[k][1] ELSE EmptyString

\* Header.Set: replaces whatever the canonicalised name held by the one value
HeaderSet(h, name, value) ==
    LET k == CanonicalMIMEHeaderKey(name)
    IN  [x \in DOMAIN h \cup {k} |-> IF x = k THEN << value >> ELSE h[x]]

\* Header.Add: appends the value to those of the canonicalised name
HeaderAdd(h, name, value) ==
    LET k == CanonicalMIMEHeaderKey(name)
    IN  [x \in DOMAIN h \cup {k} |->
            IF x = k THEN (IF k \in DOMAIN h THEN Append(h[k], value) ELSE << value >>)
            ELSE h[x]]

\* the header map net/http builds from the header lines on the wire; the
\* white space around a value is not part of it
RECURSIVE ParseHeaderLines(_)
ParseHeaderLines(lines) ==
    IF lines = << >> THEN EmptyHeader
    ELSE LET last == lines[Len(lines)]
         IN  HeaderAdd(ParseHeaderLines(SubSeq(lines, 1, Len(lines) - 1)),
                       last.name, TrimSpace(last.value))

(***************************************************************************)
(* Request Admission                                                       *)
(***************************************************************************)
\* extractAPIKey with the two headers tried in the other order
extractAPIKeyBearerFirst(h) ==
    LET key == HeaderGet(h, "x-api-key")
        authHeader == HeaderGet(h, "Authorization")
    IN  IF HasPrefix(authHeader, BearerPrefix) THEN TrimPrefix(authHeader, BearerPrefix)
        ELSE key

\* extractAPIKey with the scheme of the Authorization header read in either case
extractAPIKeyAnyCase(h) ==
    LET key == HeaderGet(h, "x-api-key")
        authHeader == HeaderGet(h, "Authorization")
        lower == << "b", "e", "a", "r", "e", "r", " " >>
    IN  IF key # EmptyString THEN key
        ELSE IF HasPrefix(authHeader, BearerPrefix) \/ HasPrefix(authHeader, lower)
             THEN SubSeq(authHeader, Len(BearerPrefix) + 1, Len(authHeader))
        ELSE EmptyString

\* extractAPIKey, as a function of r.Header
extractAPIKey(h) ==
    LET key == HeaderGet(h, "x-api-key")
        authHeader == HeaderGet(h, "Authorization")
    IN  IF key # EmptyString THEN key
        ELSE IF HasPrefix(authHeader, BearerPrefix) THEN TrimPrefix(authHeader, BearerPrefix)
        ELSE EmptyString

\* validateAPIKey without the test of main.go:213-215
validateAPIKeyWithoutEmptyCheck(key, allowedStr) ==
    IF allowedStr = EmptyString THEN TRUE
    ELSE LET allowedAPIKeys == Split(allowedStr)
         IN  \E i \in 1..Len(allowedAPIKeys) : key = TrimSpace(allowedAPIKeys[i])

\* validateAPIKey without the trimming of main.go:226-229
validateAPIKeyUntrimmed(key, allowedStr) ==
    IF key = EmptyString THEN FALSE
    ELSE IF allowedStr = EmptyString THEN TRUE
    ELSE LET allowedAPIKeys == Split(allowedStr)
         IN  \E i \in 1..Len(allowedAPIKeys) : key = allowedAPIKeys[i]

\* validateAPIKey without the permissive default of main.go:218-221
validateAPIKeyDenyWithoutList(key, allowedStr) ==
    IF key = EmptyString THEN FALSE
    ELSE LET allowedAPIKeys == Split(allowedStr)
         IN  \E i \in 1..Len(allowedAPIKeys) : key = TrimSpace(allowedAPIKeys[i])

\* validateAPIKey with a list that has no entry but empty ones taken as no list
validateAPIKeyBlankIsUnset(key, allowedStr) ==
    IF key = EmptyString THEN FALSE
    ELSE LET allowedAPIKeys == Split(allowedStr)
         IN  \/ \A i \in 1..Len(allowedAPIKeys) : TrimSpace(allowedAPIKeys[i]) = EmptyString
             \/ \E i \in 1..Len(allowedAPIKeys) : key = TrimSpace(allowedAPIKeys[i])

\* validateAPIKey, as a function of the key and of ALLOWED_API_KEYS
validateAPIKey(key, allowedStr) ==
    IF key = EmptyString THEN FALSE
    ELSE IF allowedStr = EmptyString THEN TRUE
    ELSE LET allowedAPIKeys == Split(allowedStr)
         IN  \E i \in 1..Len(allowedAPIKeys) : key = TrimSpace(allowedAPIKeys[i])

(***************************************************************************)
(* JSON                                                                    *)
(*                                                                         *)
(* A request body is a document: what the text of the body denotes.  Its   *)
(* kind is "malformed" (no JSON text), "null", "array", "string",          *)
(* "number", "bool" or "object"; an object has fields, each a scalar       *)
(* [t |-> type, v |-> text].  The text of a number is its literal.         *)
(***************************************************************************)
NoFields == [k \in {} |-> [t |-> "null", v |-> "null"]]
JTrue == [t |-> "bool", v |-> "true"]
JFalse == [t |-> "bool", v |-> "false"]
JNull == [t |-> "null", v |-> "null"]
JString(s) == [t |-> "string", v |-> s]
JNumber(literal) == [t |-> "number", v |-> literal]
Document(kind, fields) == [kind |-> kind, fields |-> fields]

\* A number of an interface{} is decoded into a float64 and encoded as the
\* shortest decimal that denotes that float64: on the literals of the model,
\* 2^53 + 1 has no float64 of its own and becomes 2^53.
Float64(literal) ==
    CASE literal = "9007199254740993" -> "9007199254740992"
      [] OTHER -> literal

\* the Go value json.Unmarshal stores for a scalar
Decode(value) ==
    IF value.t = "number" THEN JNumber(Float64(value.v)) ELSE value

\* json.Unmarshal(body, &requestData) with requestData a nil map[string]interface{}:
\* an object fills the map, null leaves the map nil without an error, anything
\* else is an error
Unmarshal(doc) ==
    CASE doc.kind = "object" ->
            [err |-> FALSE, isNil |-> FALSE,
             m |-> [k \in DOMAIN doc.fields |-> Decode(doc.fields[k])]]
      [] doc.kind = "null" -> [err |-> FALSE, isNil |-> TRUE, m |-> NoFields]
      [] OTHER -> [err |-> TRUE, isNil |-> TRUE, m |-> NoFields]

\* json.Marshal of a map[string]interface{}
Marshal(data) ==
    IF data.isNil THEN Document("null", NoFields) ELSE Document("object", data.m)

\* the flag taken from any value that is not false or null
StreamRequestedTruthy(data) ==
    IF "stream" \in DOMAIN data.m
    THEN data.m["stream"] \notin { JFalse, JNull }
    ELSE FALSE

\* main.go:305-310
StreamRequested(data) ==
    IF "stream" \in DOMAIN data.m
    THEN (IF data.m["stream"].t = "bool" THEN data.m["stream"] = JTrue ELSE FALSE)
    ELSE FALSE

\* requestData["stream"] = true
SetStreamTrue(data) ==
    [data EXCEPT !.m = [k \in DOMAIN data.m \cup {"stream"} |->
                            IF k = "stream" THEN JTrue ELSE data.m[k]]]

\* requestData["stream"] = false
SetStreamFalse(data) ==
    [data EXCEPT !.m = [k \in DOMAIN data.m \cup {"stream"} |->
                            IF k = "stream" THEN JFalse ELSE data.m[k]]]

\* json.Unmarshal(responseBody, &jsonCheck) succeeds.  Response bodies are byte
\* sequences over the alphabet {"1", "x"}: the JSON texts among them are the
\* non-empty digit strings.
IsValidJSON(bytes) ==
    /\ bytes # << >>
    /\ \A i \in 1..Len(bytes) : bytes[i] = "1"

(***************************************************************************)
(* http.ResponseWriter                                                     *)
(*                                                                         *)
(* header is the map w.Header() returns; WriteHeader commits the status    *)
(* and a snapshot of the header map (sent), once: later WriteHeader calls  *)
(* and later changes of the header map do not reach the caller.  body is   *)
(* the sequence of chunks the handler wrote, each with its origin.         *)
(***************************************************************************)
NewResponseWriter ==
    [header |-> EmptyHeader, wroteHeader |-> FALSE, status |-> 0,
     sent |-> EmptyHeader, body |-> << >>, flushed |-> 0, superfluous |-> << >>]

\* w.WriteHeader(code): the first call commits the status and the headers; a
\* later call changes nothing the caller sees (net/http logs it as a
\* superfluous call), and is kept in superfluous
WriteHeader(x, code) ==
    IF x.wroteHeader THEN [x EXCEPT !.superfluous = Append(@, code)]
    ELSE [x EXCEPT !.wroteHeader = TRUE, !.status = code, !.sent = x.header]

\* what Write and Flush do first: WriteHeader(200) if no status was committed
Committed(x) == IF x.wroteHeader THEN x ELSE WriteHeader(x, StatusOK)

Write(x, chunk) ==
    LET y == Committed(x)
    IN  [y EXCEPT !.body = Append(y.body, chunk)]

Flush(x) ==
    LET y == Committed(x)
    IN  [y EXCEPT !.flushed = Len(y.body)]

SetHeader(x, name, value) == [x EXCEPT !.header = HeaderSet(x.header, name, value)]

UpstreamChunk(bytes) == [src |-> "upstream", data |-> bytes]

\* the encoding of a mapping that has a code field besides error
ErrorBodyWithCode(msg) ==
    [src |-> "proxy",
     data |-> << "{", "code", ":", "E", ",", "error", ":", msg, "}", "\n" >>]

\* json.NewEncoder(w).Encode(map[string]string{"error": msg}): one write of the
\* object with the single field "error", followed by a newline
ErrorBody(msg) == [src |-> "proxy", data |-> << "{", "error", ":", msg, "}", "\n" >>]

EncodeError(x, msg) == Write(x, ErrorBody(msg))

\* w.WriteHeader(code) followed by the encoding of the error
RespondError(x, code, msg) == EncodeError(WriteHeader(x, code), msg)

(***************************************************************************)
(* The inputs of one request                                               *)
(***************************************************************************)
k1 == << "k", "1" >>
k2 == << "k", "2" >>
k3 == << "k", "3" >>
v1 == << "v", "1" >>
v2 == << "v", "2" >>

Line(name, value) == [name |-> name, value |-> value]

\* values of ALLOWED_API_KEYS: unset, "k1, k2", ","
AllowedSettings == { EmptyString, << "k", "1", ",", " ", "k", "2" >>, << "," >> }

ApiKeyLines ==
    { << >>,
      << Line("x-api-key", k1) >>,
      << Line("X-API-KEY", k3) >>,
      << Line("x-api-key", EmptyString) >> }

AuthorizationLines ==
    { << >>,
      << Line("Authorization", BearerPrefix \o k1) >>,
      << Line("authorization", << "b", "e", "a", "r", "e", "r", " " >> \o k1) >> }

VersionLines ==
    { << >>,
      << Line("ANTHROPIC-VERSION", v2) >>,
      << Line("anthropic-version", v1), Line("Anthropic-Version", v2) >> }

OtherLines ==
    { << >>,
      << Line("anthropic-beta", << "b" >>), Line("content-type", << "t" >>),
         Line("cookie", << "c" >>), Line("x-other", << "o" >>) >> }

\* the header lines of the inbound requests
RequestHeaderLines ==
    { a \o b \o c \o d : a \in ApiKeyLines, b \in AuthorizationLines,
                         c \in VersionLines, d \in OtherLines }

StreamValues == { JTrue, JFalse, JString("yes"), JNumber("1"), JNull }

\* the fields a body has besides stream
OtherFields ==
    { NoFields,
      [k \in { "model" } |-> JString("m")],
      [k \in { "model", "id" } |->
          IF k = "model" THEN JString("m") ELSE JNumber("9007199254740993")] }

WithStream(fields, s) ==
    [k \in DOMAIN fields \cup { "stream" } |-> IF k = "stream" THEN s ELSE fields[k]]

\* the bodies of the inbound requests
RequestBodies ==
    { Document(kind, NoFields) : kind \in { "malformed", "null", "array" } }
    \cup { Document("object", f) : f \in OtherFields }
    \cup { Document("object", WithStream(f, s)) : f \in OtherFields, s \in StreamValues }

RECURSIVE SeqsUpTo(_, _)
SeqsUpTo(S, len) ==
    IF len = 0 THEN { << >> }
    ELSE LET shorter == SeqsUpTo(S, len - 1)
         IN  shorter \cup { Append(q, x) : q \in shorter, x \in S }

\* the upstream response bodies
ResponseBodies == SeqsUpTo({ "1", "x" }, MaxBody)

ResponseHeaders ==
    { ParseHeaderLines(<< Line("content-type", TextEventStream) >>),
      ParseHeaderLines(<< Line("content-type", << "t" >>),
                          Line("cache-control", << "m" >>),
                          Line("x-up", << "u" >>), Line("x-up", << "w" >>) >>) }

UpstreamStatus == { StatusOK, 429 }

Responses ==
    [StatusCode : UpstreamStatus, Header : ResponseHeaders, Body : ResponseBodies]

\* a small upstream: a 200 with a JSON body longer than the buffer, a 200 with
\* a body that is not JSON, a 429
ConcurrentResponses ==
    { r \in Responses :
        /\ r.Header = ParseHeaderLines(<< Line("content-type", TextEventStream) >>)
        /\ \/ r.StatusCode = StatusOK /\ r.Body \in { << "1", "1", "1" >>, << "x", "1" >> }
           \/ r.StatusCode = 429 /\ r.Body = << "x" >> }

\* main.go:25, 330-333: the upstream is the one CLAUDE_API_URL names, or the
\* default one when the variable is empty
defaultClaudeURL == "https://api.anthropic.com"
smallClaudeURL == "http://localhost:9090"

\* the responses the upstream at a URL may give to a request
UpstreamResponses(url) ==
    IF url = defaultClaudeURL THEN Responses ELSE ConcurrentResponses

NoRequest ==
    [built |-> FALSE, Method |-> "", Path |-> "", Header |-> EmptyHeader,
     Body |-> Document("null", NoFields)]
NoResponse == [StatusCode |-> 0, Header |-> EmptyHeader, Body |-> << >>]
NoData == [err |-> FALSE, isNil |-> TRUE, m |-> NoFields]
\* main.go:151-168: main waits in its select, the goroutine is in
\* server.ListenAndServe, ctx is live, signalChan is empty, no request is
\* being served; delivered counts the signals the process was sent
Serving ==
    [pc |-> "select", listener |-> "ListenAndServe", listenErr |-> "none",
     ctx |-> "live", signalChan |-> << >>, sig |-> "none", delivered |-> 0,
     active |-> 0, shutdownCalls |-> 0, shutdownCtx |-> 0, shutdownErr |-> "none"]

\* no second request is in flight
NoOther == [pc |-> "done"]
\* the body before io.ReadAll(r.Body) has run
NotRead == Document("unread", NoFields)

(***************************************************************************)
(* claudeProxyHandler                                                      *)
(***************************************************************************)
\* the request line of the route of claudeProxyHandler (main.go:120)
PostMessages == [Method |-> "POST", Path |-> "/v1/messages"]

\* the locals and the response writer of a request nothing was done for yet
Fresh ==
    /\ apiKey = EmptyString
    /\ admitted = FALSE
    /\ rBody = NotRead
    /\ requestData = NoData
    /\ streamRequested = FALSE
    /\ proxyReq = NoRequest
    /\ upstreamCalls = 0
    /\ doErr = "nil"
    /\ resp = NoResponse
    /\ upPos = 0
    /\ responseBody = << >>
    /\ buffer = [i \in 1..BufferSize |-> "0"]
    /\ n = 0
    /\ readErr = "nil"
    /\ relay = "none"
    /\ canFlush = "unknown"
    /\ w = NewResponseWriter
    /\ writeErr = FALSE

\* the handler is entered: nothing is read, sent or written yet
Entered ==
    /\ pc = "admission"
    /\ rRequestLine = PostMessages
    /\ Fresh

Init ==
    /\ allowedAPIKeysStr \in AllowedSettings
    /\ rHeader \in { ParseHeaderLines(l) : l \in RequestHeaderLines }
    /\ rBodyOnWire \in RequestBodies
    /\ claudeURL = defaultClaudeURL
    /\ other = NoOther
    /\ process = Serving
    /\ Entered

\* Admission without the return of main.go:273
AdmissionFallsThrough ==
    /\ pc = "admission"
    /\ apiKey' = extractAPIKey(rHeader)
    /\ admitted' = validateAPIKey(apiKey', allowedAPIKeysStr)
    /\ pc' = "readBody"
    /\ w' = IF admitted' THEN w
            ELSE RespondError(w, StatusUnauthorized, "Unauthorized: Invalid API key")
    /\ UNCHANGED << process, allowedAPIKeysStr, claudeURL, rRequestLine, other,
                    rBodyOnWire, doErr, rHeader, rBody, requestData, streamRequested,
                    proxyReq, upstreamCalls, resp, upPos, responseBody, buffer, n,
                    readErr, relay, canFlush, writeErr >>

\* the body is read and parsed before the credential is looked at
AdmissionAfterParse ==
    /\ pc = "admission"
    /\ IF Unmarshal(rBodyOnWire).err
       THEN /\ rBody' = rBodyOnWire
            /\ pc' = "done"
            /\ w' = RespondError(w, StatusBadRequest, "Invalid JSON request body")
            /\ UNCHANGED << apiKey, admitted >>
       ELSE /\ apiKey' = extractAPIKey(rHeader)
            /\ admitted' = validateAPIKey(apiKey', allowedAPIKeysStr)
            /\ rBody' = rBody
            /\ IF admitted'
               THEN /\ pc' = "readBody"
                    /\ w' = w
               ELSE /\ pc' = "done"
                    /\ w' = RespondError(w, StatusUnauthorized,
                                         "Unauthorized: Invalid API key")
    /\ UNCHANGED << process, allowedAPIKeysStr, claudeURL, rRequestLine, other,
                    rBodyOnWire, doErr, rHeader, requestData, streamRequested,
                    proxyReq, upstreamCalls, resp, upPos, responseBody, buffer, n,
                    readErr, relay, canFlush, writeErr >>

\* main.go:265-274
Admission ==
    /\ pc = "admission"
    /\ apiKey' = extractAPIKey(rHeader)
    /\ admitted' = validateAPIKey(apiKey', allowedAPIKeysStr)
    /\ IF admitted'
       THEN /\ pc' = "readBody"
            /\ w' = w
       ELSE /\ pc' = "done"
            /\ w' = RespondError(w, StatusUnauthorized, "Unauthorized: Invalid API key")
    /\ UNCHANGED << process, allowedAPIKeysStr, claudeURL, rRequestLine, other,
                    rBodyOnWire, doErr, rHeader, rBody, requestData, streamRequested,
                    proxyReq, upstreamCalls, resp, upPos, responseBody, buffer, n,
                    readErr, relay, canFlush, writeErr >>

\* a failed read of the request body taken for a failure of the proxy
ReadBodyFailsServerError ==
    /\ pc = "readBody"
    /\ pc' = "done"
    /\ w' = RespondError(w, StatusInternalServerError, "Failed to read request body")
    /\ UNCHANGED << process, allowedAPIKeysStr, claudeURL, rRequestLine, other,
                    rBodyOnWire, doErr, rHeader, apiKey, admitted, rBody, requestData,
                    streamRequested, proxyReq, upstreamCalls, resp, upPos,
                    responseBody, buffer, n, readErr, relay, canFlush, writeErr >>

\* main.go:276-286, io.ReadAll(r.Body) fails
ReadBodyFails ==
    /\ pc = "readBody"
    /\ pc' = "done"
    /\ w' = RespondError(w, StatusBadRequest, "Failed to read request body")
    /\ UNCHANGED << process, allowedAPIKeysStr, claudeURL, rRequestLine, other,
                    rBodyOnWire, doErr, rHeader, apiKey, admitted, rBody, requestData,
                    streamRequested, proxyReq, upstreamCalls, resp, upPos,
                    responseBody, buffer, n, readErr, relay, canFlush, writeErr >>

\* main.go:276-286, io.ReadAll(r.Body) returns the body
ReadBody ==
    /\ pc = "readBody"
    /\ rBody' = rBodyOnWire
    /\ pc' = "normalize"
    /\ UNCHANGED << process, allowedAPIKeysStr, claudeURL, rRequestLine, other,
                    rBodyOnWire, doErr, rHeader, apiKey, admitted, requestData,
                    streamRequested, proxyReq, upstreamCalls, resp, upPos,
                    responseBody, buffer, n, readErr, relay, canFlush, w, writeErr >>

\* main.go:313-316: the map the handler marshals
NormalizedData(data) ==
    IF StreamRequested(data) THEN data ELSE SetStreamFalse(data)

\* main.go:288-327.  The assignment of main.go:315 to a nil map panics; net/http
\* recovers the panic and closes the connection without a response.  json.Marshal
\* of a map that json.Unmarshal filled cannot fail (main.go:320-327).
Normalize ==
    /\ pc = "normalize"
    /\ LET data == Unmarshal(rBody)
       IN  IF data.err
           THEN /\ pc' = "done"
                /\ w' = RespondError(w, StatusBadRequest, "Invalid JSON request body")
                /\ UNCHANGED << requestData, streamRequested >>
           ELSE /\ streamRequested' = StreamRequested(data)
                /\ w' = w
                /\ IF ~streamRequested' /\ data.isNil
                   THEN /\ pc' = "panic"
                        /\ requestData' = data
                   ELSE /\ pc' = "build"
                        /\ requestData' = NormalizedData(data)
    /\ UNCHANGED << process, allowedAPIKeysStr, claudeURL, rRequestLine, other,
                    rBodyOnWire, doErr, rHeader, apiKey, admitted, rBody, proxyReq,
                    upstreamCalls, resp, upPos, responseBody, buffer, n, readErr,
                    relay, canFlush, writeErr >>

\* the loop of main.go:354 without the filter on the header name
IsForwardedAny(header) == TRUE

\* main.go:356-359: the inbound headers that are copied to the upstream request
IsForwarded(header) ==
    LET headerName == ToLower(header)
    IN  \/ headerName = "authorization"
        \/ headerName = "x-api-key"
        \/ headerName = "anthropic-version"
        \/ headerName = "anthropic-beta"

\* main.go:360-361: proxyReq.Header.Set(header, value) for each value in turn
RECURSIVE SetEach(_, _, _)
SetEach(h, header, values) ==
    IF values = << >> THEN h
    ELSE SetEach(HeaderSet(h, header, Head(values)), header, Tail(values))

\* main.go:354-370: the loop over r.Header
RECURSIVE CopyForwarded(_, _, _)
CopyForwarded(h, names, from) ==
    IF names = {} THEN h
    ELSE LET header == CHOOSE name \in names : TRUE
             next == IF IsForwarded(header) THEN SetEach(h, header, from[header]) ELSE h
         IN  CopyForwarded(next, names \ {header}, from)

\* main.go:349-351 without the default of main.go:351
RequiredHeadersWithoutVersion ==
    HeaderSet(EmptyHeader, "Content-Type", ApplicationJSON)

\* main.go:349-351: the two headers set on every upstream request
RequiredHeaders ==
    HeaderSet(HeaderSet(EmptyHeader, "Content-Type", ApplicationJSON),
              "anthropic-version", anthropicVersion)

\* main.go:349-370: the headers of the upstream request
ProxyHeaders(from) == CopyForwarded(RequiredHeaders, DOMAIN from, from)

\* main.go:329-347, http.NewRequest fails (CLAUDE_API_URL does not parse)
BuildRequestFails ==
    /\ pc = "build"
    /\ pc' = "done"
    /\ w' = RespondError(w, StatusInternalServerError, "Failed to create proxy request")
    /\ UNCHANGED << process, allowedAPIKeysStr, claudeURL, rRequestLine, other,
                    rBodyOnWire, doErr, rHeader, apiKey, admitted, rBody, requestData,
                    streamRequested, proxyReq, upstreamCalls, resp, upPos,
                    responseBody, buffer, n, readErr, relay, canFlush, writeErr >>

\* main.go:318-370
BuildRequest ==
    /\ pc = "build"
    /\ proxyReq' = [built |-> TRUE, Method |-> "POST", Path |-> "/v1/messages",
                    Header |-> ProxyHeaders(rHeader), Body |-> Marshal(requestData)]
    /\ pc' = "dispatch"
    /\ UNCHANGED << process, allowedAPIKeysStr, claudeURL, rRequestLine, other,
                    rBodyOnWire, doErr, rHeader, apiKey, admitted, rBody, requestData,
                    streamRequested, upstreamCalls, resp, upPos, responseBody, buffer,
                    n, readErr, relay, canFlush, w, writeErr >>

\* a transport failure that is followed by another attempt
DispatchRetries ==
    /\ pc = "dispatch"
    /\ upstreamCalls' = upstreamCalls + 1
    /\ pc' = "dispatch"
    /\ UNCHANGED << process, allowedAPIKeysStr, claudeURL, rRequestLine, other,
                    rBodyOnWire, doErr, rHeader, apiKey, admitted, rBody, requestData,
                    streamRequested, proxyReq, resp, upPos, responseBody, buffer, n,
                    readErr, relay, canFlush, w, writeErr >>

\* the transport failures of client.Do: the connection is refused, the timeout
\* of the client passes before the response arrives, the host is not found
DoErrors == { "connection refused", "Client.Timeout exceeded", "no such host" }

\* fmt.Sprintf("Failed to send request to Claude API: %v", err)
FailedToSend(cause) ==
    CASE cause = "connection refused"
            -> "Failed to send request to Claude API: connection refused"
      [] cause = "Client.Timeout exceeded"
            -> "Failed to send request to Claude API: Client.Timeout exceeded"
      [] cause = "no such host"
            -> "Failed to send request to Claude API: no such host"

\* the transport failure answered with 502 in place of 500
DispatchFailsBadGateway ==
    /\ pc = "dispatch"
    /\ upstreamCalls' = upstreamCalls + 1
    /\ \E cause \in DoErrors :
          /\ doErr' = cause
          /\ w' = RespondError(w, 502, FailedToSend(cause))
    /\ pc' = "done"
    /\ UNCHANGED << process, allowedAPIKeysStr, claudeURL, rRequestLine, other,
                    rBodyOnWire, rHeader, apiKey, admitted, rBody, requestData,
                    streamRequested, proxyReq, resp, upPos, responseBody, buffer, n,
                    readErr, relay, canFlush, writeErr >>

\* main.go:372-385, client.Do returns an error (refused, timeout, DNS)
DispatchFails ==
    /\ pc = "dispatch"
    /\ upstreamCalls' = upstreamCalls + 1
    /\ \E cause \in DoErrors :
          /\ doErr' = cause
          /\ w' = RespondError(w, StatusInternalServerError, FailedToSend(cause))
    /\ pc' = "done"
    /\ UNCHANGED << process, allowedAPIKeysStr, claudeURL, rRequestLine, other,
                    rBodyOnWire, rHeader, apiKey, admitted, rBody, requestData,
                    streamRequested, proxyReq, resp, upPos, responseBody, buffer, n,
                    readErr, relay, canFlush, writeErr >>

\* main.go:372-387, client.Do returns a response
Dispatch ==
    /\ pc = "dispatch"
    /\ upstreamCalls' = upstreamCalls + 1
    /\ \E r \in UpstreamResponses(claudeURL) : resp' = r
    /\ pc' = "received"
    /\ UNCHANGED << process, allowedAPIKeysStr, claudeURL, rRequestLine, other,
                    rBodyOnWire, doErr, rHeader, apiKey, admitted, rBody, requestData,
                    streamRequested, proxyReq, upPos, responseBody, buffer, n,
                    readErr, relay, canFlush, w, writeErr >>

\* main.go:389-394: w.Header().Add(key, value) for every value of every header
CopyHeaders(to, from) ==
    [k \in DOMAIN to \cup DOMAIN from |->
        (IF k \in DOMAIN to THEN to[k] ELSE << >>)
        \o (IF k \in DOMAIN from THEN from[k] ELSE << >>)]

\* the branch of main.go:399 without its test of the status
ChooseRelayIgnoringStatus(stream, statusCode) ==
    IF ~stream THEN "BufferedRelay" ELSE "StreamRelay"

\* main.go:399: the branch between the two relays
ChooseRelay(stream, statusCode) ==
    IF ~stream \/ statusCode # StatusOK THEN "BufferedRelay" ELSE "StreamRelay"

\* main.go:389-396 without the Set of main.go:395
CommitResponseWithUpstreamContentType(x, r) ==
    WriteHeader([x EXCEPT !.header = CopyHeaders(x.header, r.Header)], r.StatusCode)

\* main.go:389-396: the headers and the status committed for the upstream response
CommitResponse(x, r) ==
    WriteHeader(
        SetHeader([x EXCEPT !.header = CopyHeaders(x.header, r.Header)],
                  "Content-Type", ApplicationJSON),
        r.StatusCode)

\* main.go:389-399
BeginRelay ==
    /\ pc = "received"
    /\ w' = CommitResponse(w, resp)
    /\ relay' = ChooseRelay(streamRequested, resp.StatusCode)
    /\ pc' = IF relay' = "BufferedRelay" THEN "bufferedRead" ELSE "streamSetup"
    /\ UNCHANGED << process, allowedAPIKeysStr, claudeURL, rRequestLine, other,
                    rBodyOnWire, doErr, rHeader, apiKey, admitted, rBody, requestData,
                    streamRequested, proxyReq, upstreamCalls, resp, upPos,
                    responseBody, buffer, n, readErr, canFlush, writeErr >>

\* the failures of a read of resp.Body: the connection broke, or the timeout
\* of the client, which runs from the start of client.Do until the body is
\* read, has passed
ReadFailures == { "err", "deadline" }

\* a failed io.ReadAll answered like the other failures, by an error body
BufferedReadFailsWithErrorBody ==
    /\ pc = "bufferedRead"
    /\ readErr' \in ReadFailures
    /\ w' = RespondError(w, StatusInternalServerError, "Failed to read response body")
    /\ pc' = "done"
    /\ UNCHANGED << process, allowedAPIKeysStr, claudeURL, rRequestLine, other,
                    rBodyOnWire, doErr, rHeader, apiKey, admitted, rBody, requestData,
                    streamRequested, proxyReq, upstreamCalls, resp, upPos,
                    responseBody, buffer, n, relay, canFlush, writeErr >>

\* main.go:400-404, io.ReadAll(resp.Body) fails: the handler drops what was read
\* and returns
BufferedReadFails ==
    /\ pc = "bufferedRead"
    /\ readErr' \in ReadFailures
    /\ pc' = "done"
    /\ UNCHANGED << process, allowedAPIKeysStr, claudeURL, rRequestLine, other,
                    rBodyOnWire, doErr, rHeader, apiKey, admitted, rBody, requestData,
                    streamRequested, proxyReq, upstreamCalls, resp, upPos,
                    responseBody, buffer, n, relay, canFlush, w, writeErr >>

\* main.go:400, io.ReadAll(resp.Body) returns the whole body
BufferedRead ==
    /\ pc = "bufferedRead"
    /\ responseBody' = resp.Body
    /\ upPos' = Len(resp.Body)
    /\ pc' = "bufferedWrite"
    /\ UNCHANGED << process, allowedAPIKeysStr, claudeURL, rRequestLine, other,
                    rBodyOnWire, doErr, rHeader, apiKey, admitted, rBody, requestData,
                    streamRequested, proxyReq, upstreamCalls, resp, buffer, n,
                    readErr, relay, canFlush, w, writeErr >>

\* the check of main.go:414 without its conditions: every body is validated
InvalidUpstreamJSONAlways(stream, statusCode, bytes) == ~IsValidJSON(bytes)

\* main.go:414-425 left out: no body is ever found invalid
UpstreamJSONUnchecked(stream, statusCode, bytes) == FALSE

\* main.go:414-417: the body of a non-streaming 200 response is checked and is
\* not JSON
InvalidUpstreamJSON(stream, statusCode, bytes) ==
    /\ ~stream
    /\ statusCode = StatusOK
    /\ ~IsValidJSON(bytes)

\* main.go:412-433: what the buffered branch writes once the body is read
BufferedResponse(x, stream, statusCode, bytes) ==
    IF InvalidUpstreamJSON(stream, statusCode, bytes)
    THEN RespondError(x, StatusInternalServerError, "Invalid JSON in Claude API response")
    ELSE Write(IF ~stream /\ statusCode = StatusOK
               THEN SetHeader(x, "Content-Type", ApplicationJSON)
               ELSE x,
               UpstreamChunk(bytes))

\* main.go:406-433
BufferedWrite ==
    /\ pc = "bufferedWrite"
    /\ w' = BufferedResponse(w, streamRequested, resp.StatusCode, responseBody)
    /\ pc' = "done"
    /\ UNCHANGED << process, allowedAPIKeysStr, claudeURL, rRequestLine, other,
                    rBodyOnWire, doErr, rHeader, apiKey, admitted, rBody, requestData,
                    streamRequested, proxyReq, upstreamCalls, resp, upPos,
                    responseBody, buffer, n, readErr, relay, canFlush, writeErr >>

\* main.go:438-446: w is no http.Flusher
StreamUnsupported ==
    /\ pc = "streamSetup"
    /\ canFlush' = "no"
    /\ w' = RespondError(w, StatusInternalServerError, "Streaming not supported by server")
    /\ pc' = "done"
    /\ UNCHANGED << process, allowedAPIKeysStr, claudeURL, rRequestLine, other,
                    rBodyOnWire, doErr, rHeader, apiKey, admitted, rBody, requestData,
                    streamRequested, proxyReq, upstreamCalls, resp, upPos,
                    responseBody, buffer, n, readErr, relay, writeErr >>

\* main.go:453-456
SetStreamHeaders(x) ==
    SetHeader(SetHeader(SetHeader(x, "Content-Type", TextEventStream),
                        "Cache-Control", NoCache),
              "Connection", KeepAlive)

\* main.go:436-456: w is an http.Flusher
StreamSetup ==
    /\ pc = "streamSetup"
    /\ canFlush' = "yes"
    /\ w' = SetStreamHeaders(w)
    /\ pc' = "streamRead"
    /\ UNCHANGED << process, allowedAPIKeysStr, claudeURL, rRequestLine, other,
                    rBodyOnWire, doErr, rHeader, apiKey, admitted, rBody, requestData,
                    streamRequested, proxyReq, upstreamCalls, resp, upPos,
                    responseBody, buffer, n, readErr, relay, writeErr >>

\* main.go:459, n, err := resp.Body.Read(buffer): up to len(buffer) of the bytes
\* not yet read overwrite the start of the buffer, with io.EOF only once the body
\* is exhausted, or with another error (reset, deadline) at any point; no read
\* returns 0 bytes without an error
StreamRead ==
    /\ pc = "streamRead"
    /\ \E m \in 0..Min(BufferSize, Len(resp.Body) - upPos),
          e \in { "nil", "EOF" } \cup ReadFailures :
          /\ e = "nil" => m > 0
          /\ e = "EOF" => upPos + m = Len(resp.Body)
          /\ buffer' = [i \in 1..BufferSize |->
                            IF i <= m THEN resp.Body[upPos + i] ELSE buffer[i]]
          /\ n' = m
          /\ readErr' = e
          /\ upPos' = upPos + m
    /\ pc' = "streamWrite"
    /\ UNCHANGED << process, allowedAPIKeysStr, claudeURL, rRequestLine, other,
                    rBodyOnWire, doErr, rHeader, apiKey, admitted, rBody, requestData,
                    streamRequested, proxyReq, upstreamCalls, resp, responseBody,
                    relay, canFlush, w, writeErr >>

\* a loop without its break: the next read follows whatever the last returned
AfterChunkNeverBreaks(e) == "streamRead"

\* main.go:469-477: the loop ends on any read error, io.EOF included
AfterChunk(e) == IF e # "nil" THEN "done" ELSE "streamRead"

\* the failed write is logged and the loop carries on
StreamWriteFailsAndContinues ==
    /\ pc = "streamWrite"
    /\ n > 0
    /\ writeErr' = TRUE
    /\ pc' = AfterChunk(readErr)
    /\ UNCHANGED << process, allowedAPIKeysStr, claudeURL, rRequestLine, other,
                    rBodyOnWire, doErr, rHeader, apiKey, admitted, rBody, requestData,
                    streamRequested, proxyReq, upstreamCalls, resp, upPos,
                    responseBody, buffer, n, readErr, relay, canFlush, w >>

\* main.go:460-466, w.Write(buffer[:n]) fails: the handler returns
StreamWriteFails ==
    /\ pc = "streamWrite"
    /\ n > 0
    /\ writeErr' = TRUE
    /\ pc' = "done"
    /\ UNCHANGED << process, allowedAPIKeysStr, claudeURL, rRequestLine, other,
                    rBodyOnWire, doErr, rHeader, apiKey, admitted, rBody, requestData,
                    streamRequested, proxyReq, upstreamCalls, resp, upPos,
                    responseBody, buffer, n, readErr, relay, canFlush, w >>

\* the chunk is written, and left to the writer's buffering
StreamChunkUnflushed(x, buf, count) ==
    IF count > 0 THEN Write(x, UpstreamChunk(SubSeq(buf, 1, count))) ELSE x

\* the chunk is written again on every iteration
StreamChunkTwice(x, buf, count) ==
    IF count > 0
    THEN Flush(Write(Write(x, UpstreamChunk(SubSeq(buf, 1, count))),
                     UpstreamChunk(SubSeq(buf, 1, count))))
    ELSE x

\* w.Write(buffer) in place of w.Write(buffer[:n])
StreamChunkWholeBuffer(x, buf, count) ==
    IF count > 0 THEN Flush(Write(x, UpstreamChunk(buf))) ELSE x

\* main.go:460-468: the chunk is written and flushed
StreamChunk(x, buf, count) ==
    IF count > 0 THEN Flush(Write(x, UpstreamChunk(SubSeq(buf, 1, count)))) ELSE x

\* an iteration that looks at the error of the read before it writes: what was
\* read together with end-of-stream or an error is not written
StreamWriteErrorFirst ==
    /\ pc = "streamWrite"
    /\ w' = IF readErr # "nil" THEN w ELSE StreamChunk(w, buffer, n)
    /\ pc' = AfterChunk(readErr)
    /\ UNCHANGED << process, allowedAPIKeysStr, claudeURL, rRequestLine, other,
                    rBodyOnWire, doErr, rHeader, apiKey, admitted, rBody, requestData,
                    streamRequested, proxyReq, upstreamCalls, resp, upPos,
                    responseBody, buffer, n, readErr, relay, canFlush, writeErr >>

\* main.go:460-478: the rest of one iteration of the loop
StreamWrite ==
    /\ pc = "streamWrite"
    /\ w' = StreamChunk(w, buffer, n)
    /\ pc' = AfterChunk(readErr)
    /\ UNCHANGED << process, allowedAPIKeysStr, claudeURL, rRequestLine, other,
                    rBodyOnWire, doErr, rHeader, apiKey, admitted, rBody, requestData,
                    streamRequested, proxyReq, upstreamCalls, resp, upPos,
                    responseBody, buffer, n, readErr, relay, canFlush, writeErr >>

Next ==
    \/ Admission
    \/ ReadBodyFails
    \/ ReadBody
    \/ Normalize
    \/ BuildRequestFails
    \/ BuildRequest
    \/ DispatchFails
    \/ Dispatch
    \/ BeginRelay
    \/ BufferedReadFails
    \/ BufferedRead
    \/ BufferedWrite
    \/ StreamUnsupported
    \/ StreamSetup
    \/ StreamRead
    \/ StreamWriteFails
    \/ StreamWrite

Spec == Init /\ [][Next]_vars

(***************************************************************************)
(* Request Admission on its own: every credential and every allow-list     *)
(* setting up to a length, in both header locations.                       *)
(***************************************************************************)
MaxKeyLen == 2     \* longest credential, in characters
MaxAllowLen == 4   \* longest value of ALLOWED_API_KEYS, in characters

Credentials == SeqsUpTo({ "a", "b" }, MaxKeyLen)

AllowLists == SeqsUpTo({ "a", ",", " " }, MaxAllowLen)

CredentialApiKeyLines ==
    { << >> } \cup { << Line("x-api-key", c) >> : c \in Credentials }

CredentialAuthorizationLines ==
    { << >> }
    \cup { << Line("Authorization", BearerPrefix \o c) >> : c \in Credentials }
    \cup { << Line("Authorization", << "b", "e", "a", "r", "e", "r", " ", "a" >>) >>,
           << Line("Authorization", << "B", "a", "s", "i", "c", " ", "a" >>) >>,
           << Line("Authorization", << "a" >>) >> }

InitAdmission ==
    /\ allowedAPIKeysStr \in AllowLists
    /\ rHeader \in { ParseHeaderLines(a \o b) :
                        a \in CredentialApiKeyLines, b \in CredentialAuthorizationLines }
    /\ rBodyOnWire \in { Document("malformed", NoFields), Document("object", NoFields) }
    /\ claudeURL = defaultClaudeURL
    /\ other = NoOther
    /\ process = Serving
    /\ Entered

NextAdmission == Admission

SpecAdmission == InitAdmission /\ [][NextAdmission]_vars

(***************************************************************************)
(* The router of main (main.go:108-129): a request of any method and path   *)
(* is matched against the two routes before a handler runs.                *)
(***************************************************************************)
StatusNotFound == 404
StatusMethodNotAllowed == 405

\* the routes with /api/v1/messages in place of /v1/messages
RouterWithApiPrefix(method, path) ==
    CASE path = "/health" /\ method = "GET" -> "health"
      [] path = "/api/v1/messages" /\ method = "POST" -> "claudeProxyHandler"
      [] path \in { "/health", "/api/v1/messages" } -> "methodMismatch"
      [] OTHER -> "notFound"

\* main.go:112-120: the handler of the route that matches the path and the
\* method; a path is matched whole
Router(method, path) ==
    CASE path = "/health" /\ method = "GET" -> "health"
      [] path = "/v1/messages" /\ method = "POST" -> "claudeProxyHandler"
      [] path \in { "/health", "/v1/messages" } -> "methodMismatch"
      [] OTHER -> "notFound"

\* what the router writes when no route matches: http.NotFound, or, for a path
\* that is registered with another method, an empty 405 (an empty 404 with the
\* releases of the router that know no 405)
NoRoute(x, match, code) ==
    IF match = "notFound"
    THEN Write(WriteHeader(x, StatusNotFound),
               [src |-> "router", data |-> << "404 page not found", "\n" >>])
    ELSE WriteHeader(x, code)

\* main.go:108-129: the router picks the handler
Route ==
    /\ pc = "route"
    /\ LET match == Router(rRequestLine.Method, rRequestLine.Path)
       IN  /\ pc' = CASE match = "claudeProxyHandler" -> "admission"
                      [] match = "health" -> "health"
                      [] OTHER -> "done"
           /\ \E code \in { StatusNotFound, StatusMethodNotAllowed } :
                 w' = IF match \in { "claudeProxyHandler", "health" } THEN w
                      ELSE NoRoute(w, match, code)
    /\ UNCHANGED << process, allowedAPIKeysStr, claudeURL, rRequestLine, other,
                    rBodyOnWire, doErr, rHeader, apiKey, admitted, rBody, requestData,
                    streamRequested, proxyReq, upstreamCalls, resp, upPos,
                    responseBody, buffer, n, readErr, relay, canFlush, writeErr >>

\* json.NewEncoder(w).Encode(map[string]string{"status": "ok"})
HealthBody == [src |-> "health", data |-> << "{", "status", ":", "ok", "}", "\n" >>]

\* a health check that answers only a caller whose credential is admitted
HealthCheckAuthenticated ==
    /\ pc = "health"
    /\ w' = IF validateAPIKey(extractAPIKey(rHeader), allowedAPIKeysStr)
            THEN Write(SetHeader(w, "Content-Type", ApplicationJSON), HealthBody)
            ELSE RespondError(w, StatusUnauthorized, "Unauthorized: Invalid API key")
    /\ pc' = "done"
    /\ UNCHANGED << process, allowedAPIKeysStr, claudeURL, rRequestLine, other,
                    rBodyOnWire, doErr, rHeader, apiKey, admitted, rBody, requestData,
                    streamRequested, proxyReq, upstreamCalls, resp, upPos,
                    responseBody, buffer, n, readErr, relay, canFlush, writeErr >>

\* main.go:112-117: the handler of GET /health
HealthCheck ==
    /\ pc = "health"
    /\ w' = Write(SetHeader(w, "Content-Type", ApplicationJSON), HealthBody)
    /\ pc' = "done"
    /\ UNCHANGED << process, allowedAPIKeysStr, claudeURL, rRequestLine, other,
                    rBodyOnWire, doErr, rHeader, apiKey, admitted, rBody, requestData,
                    streamRequested, proxyReq, upstreamCalls, resp, upPos,
                    responseBody, buffer, n, readErr, relay, canFlush, writeErr >>

Methods == { "GET", "POST", "DELETE" }

Paths == { "/", "/health", "/v1/messages", "/v1/messages/", "/api/v1/messages" }

\* a request of any method and path arrives, without a credential or with one
\* that is or is not on the allow-list, under each setting of the allow-list
InitRouting ==
    /\ allowedAPIKeysStr \in AllowedSettings
    /\ claudeURL = smallClaudeURL
    /\ rRequestLine \in [Method : Methods, Path : Paths]
    /\ rHeader \in { EmptyHeader }
            \cup { ParseHeaderLines(<< Line("x-api-key", k) >>) : k \in { k1, k3 } }
    /\ rBodyOnWire \in { Document("object", NoFields),
                          Document("object", WithStream(NoFields, JTrue)) }
    /\ other = NoOther
    /\ process = Serving
    /\ pc = "route"
    /\ Fresh

NextRouting == Route \/ HealthCheck \/ Next

SpecRouting == InitRouting /\ [][NextRouting]_vars

\* The goroutine that serves the request keeps running: a step that can be
\* taken is taken.  Every read of the upstream and every write to the caller
\* returns (main.go:373-375 gives the client its timeout, which ends a read
\* that would wait), so no step of the handler waits for ever.
SpecTermination == SpecRouting /\ WF_vars(NextRouting)

(***************************************************************************)
(* Two requests in flight.  net/http serves every request in a goroutine   *)
(* of its own, and all the handler works on is its arguments and locals   *)
(* (main.go:260-479); ALLOWED_API_KEYS belongs to the process.  The        *)
(* variables of the handler are those of the goroutine that is running,    *)
(* other holds those of the goroutine that is not, and the scheduler may   *)
(* switch between the two after any step.                                  *)
(***************************************************************************)
\* the arguments and locals of the running handler
Running ==
    [pc |-> pc, rRequestLine |-> rRequestLine, rHeader |-> rHeader,
     rBodyOnWire |-> rBodyOnWire, apiKey |-> apiKey,
     admitted |-> admitted, rBody |-> rBody, requestData |-> requestData,
     streamRequested |-> streamRequested, proxyReq |-> proxyReq,
     upstreamCalls |-> upstreamCalls, doErr |-> doErr, resp |-> resp, upPos |-> upPos,
     responseBody |-> responseBody, buffer |-> buffer, n |-> n, readErr |-> readErr,
     relay |-> relay, canFlush |-> canFlush, w |-> w, writeErr |-> writeErr]

\* a request that has entered the handler
EnteredRequest(header, body) ==
    [pc |-> "admission", rRequestLine |-> PostMessages, rHeader |-> header,
     rBodyOnWire |-> body,
     apiKey |-> EmptyString, admitted |-> FALSE, rBody |-> NotRead,
     requestData |-> NoData, streamRequested |-> FALSE, proxyReq |-> NoRequest,
     upstreamCalls |-> 0, doErr |-> "nil", resp |-> NoResponse, upPos |-> 0,
     responseBody |-> << >>, buffer |-> [i \in 1..BufferSize |-> "0"], n |-> 0,
     readErr |-> "nil", relay |-> "none", canFlush |-> "unknown",
     w |-> NewResponseWriter, writeErr |-> FALSE]

\* the switch of a program whose read buffer is one variable of the package
SwitchSharingBuffer ==
    /\ other.pc \notin { "done", "panic" }
    /\ other' = Running
    /\ pc' = other.pc
    /\ rRequestLine' = other.rRequestLine
    /\ rHeader' = other.rHeader
    /\ rBodyOnWire' = other.rBodyOnWire
    /\ apiKey' = other.apiKey
    /\ admitted' = other.admitted
    /\ rBody' = other.rBody
    /\ requestData' = other.requestData
    /\ streamRequested' = other.streamRequested
    /\ proxyReq' = other.proxyReq
    /\ upstreamCalls' = other.upstreamCalls
    /\ doErr' = other.doErr
    /\ resp' = other.resp
    /\ upPos' = other.upPos
    /\ responseBody' = other.responseBody
    /\ n' = other.n
    /\ readErr' = other.readErr
    /\ relay' = other.relay
    /\ canFlush' = other.canFlush
    /\ w' = other.w
    /\ writeErr' = other.writeErr
    /\ UNCHANGED << process, allowedAPIKeysStr, claudeURL, buffer >>

\* the scheduler stops the running goroutine and resumes the other one, which
\* has not returned: each finds its own arguments and locals again
Switch ==
    /\ other.pc \notin { "done", "panic" }
    /\ other' = Running
    /\ pc' = other.pc
    /\ rRequestLine' = other.rRequestLine
    /\ rHeader' = other.rHeader
    /\ rBodyOnWire' = other.rBodyOnWire
    /\ apiKey' = other.apiKey
    /\ admitted' = other.admitted
    /\ rBody' = other.rBody
    /\ requestData' = other.requestData
    /\ streamRequested' = other.streamRequested
    /\ proxyReq' = other.proxyReq
    /\ upstreamCalls' = other.upstreamCalls
    /\ doErr' = other.doErr
    /\ resp' = other.resp
    /\ upPos' = other.upPos
    /\ responseBody' = other.responseBody
    /\ buffer' = other.buffer
    /\ n' = other.n
    /\ readErr' = other.readErr
    /\ relay' = other.relay
    /\ canFlush' = other.canFlush
    /\ w' = other.w
    /\ writeErr' = other.writeErr
    /\ UNCHANGED << process, allowedAPIKeysStr, claudeURL >>

\* the second request: accepted or not, asking for a stream or not
ConcurrentRequests ==
    { EnteredRequest(ParseHeaderLines(<< Line("Authorization", BearerPrefix \o k) >>),
                     Document("object", f)) :
        k \in { k2, k3 }, f \in { NoFields, WithStream(NoFields, JTrue) } }

\* a request that asks for a stream, and a second request with it
InitConcurrent ==
    /\ allowedAPIKeysStr = << "k", "1", ",", " ", "k", "2" >>
    /\ rHeader = ParseHeaderLines(<< Line("x-api-key", k1) >>)
    /\ rBodyOnWire = Document("object", WithStream(NoFields, JTrue))
    /\ claudeURL = smallClaudeURL
    /\ other \in ConcurrentRequests
    /\ process = Serving
    /\ Entered

NextConcurrent == Next \/ Switch

SpecConcurrent == InitConcurrent /\ [][NextConcurrent]_vars

(***************************************************************************)
(* Properties                                                              *)
(***************************************************************************)
Finished == pc \in { "done", "panic" }

Last(q) == q[Len(q)]

\* the bytes of the chunks written to the caller, in order
RECURSIVE Concat(_)
Concat(chunks) ==
    IF chunks = << >> THEN << >> ELSE Head(chunks).data \o Concat(Tail(chunks))

Unauthorized == ErrorBody("Unauthorized: Invalid API key")
InvalidJSONResponse == ErrorBody("Invalid JSON in Claude API response")
StreamingUnsupported == ErrorBody("Streaming not supported by server")

\* C1: once admission has run on a request whose extracted credential is not
\* valid, the handler is done, the caller has status 401 and the body
\* {"error":"Unauthorized: Invalid API key"}, no upstream request was built or
\* sent and no relay was entered.
C1_RejectedGets401 ==
    (pc # "admission" /\ ~validateAPIKey(extractAPIKey(rHeader), allowedAPIKeysStr))
        => /\ pc = "done"
           /\ w.status = StatusUnauthorized
           /\ w.body = << Unauthorized >>
           /\ upstreamCalls = 0
           /\ ~proxyReq.built
           /\ relay = "none"

\* a credential that is not on a configured allow-list was rejected
C1_Witness ==
    /\ pc = "done"
    /\ apiKey = k3
    /\ allowedAPIKeysStr # EmptyString
    /\ w.status = StatusUnauthorized
    /\ upstreamCalls = 0

\* C2 as stated: whenever the handling of a request has finished, exactly one
\* upstream call was made for it.
C2_ExactlyOneCall == Finished => upstreamCalls = 1

\* C2 as amended: at most one upstream call is made per inbound request; when
\* the handling has finished the count is 1 if the upstream request was built
\* (admission, body read, normalization and construction succeeded) and 0
\* otherwise.
C2_AtMostOneCall ==
    /\ upstreamCalls \in { 0, 1 }
    /\ Finished => (upstreamCalls = 1 <=> proxyReq.built)

\* a request was dispatched once and answered
C2_Witness ==
    /\ pc = "done"
    /\ upstreamCalls = 1
    /\ resp.StatusCode = StatusOK
    /\ w.body # << >>

\* C3: once the relay is chosen it is StreamRelay if and only if the stream was
\* requested and the upstream status is 200, and BufferedRelay in every other
\* combination; the steps of each relay run only under that relay.
C3_RelayChoice ==
    LET chosen == resp.StatusCode # 0 /\ pc # "received"
        both == streamRequested /\ resp.StatusCode = StatusOK
    IN  /\ relay = "StreamRelay" <=> (chosen /\ both)
        /\ relay = "BufferedRelay" <=> (chosen /\ ~both)
        /\ pc \in { "streamSetup", "streamRead", "streamWrite" } => relay = "StreamRelay"
        /\ pc \in { "bufferedRead", "bufferedWrite" } => relay = "BufferedRelay"
        /\ w.flushed > 0 => relay = "StreamRelay"

\* a stream was requested, the upstream answered 429 and the body was relayed whole
C3_Witness ==
    /\ pc = "done"
    /\ streamRequested
    /\ resp.StatusCode = 429
    /\ relay = "BufferedRelay"
    /\ w.body = << UpstreamChunk(resp.Body) >>

\* C4: when a non-streaming request got an upstream 200 whose body is not JSON
\* and the handler has answered, the caller has status 500 and the error body.
C4_InvalidJSONGets500 ==
    (/\ pc = "done"
     /\ relay = "BufferedRelay"
     /\ ~streamRequested
     /\ resp.StatusCode = StatusOK
     /\ ~IsValidJSON(resp.Body)
     /\ w.body # << >>)
        => /\ w.status = StatusInternalServerError
           /\ w.body = << InvalidJSONResponse >>

\* C5: when a non-streaming request got an upstream 200 whose body is not JSON,
\* no chunk written to the caller comes from the upstream body, in any state.
C5_InvalidJSONNeverForwarded ==
    (/\ relay = "BufferedRelay"
     /\ ~streamRequested
     /\ resp.StatusCode = StatusOK
     /\ ~IsValidJSON(resp.Body))
        => \A i \in 1..Len(w.body) : w.body[i].src # "upstream"

\* a non-empty body that is not JSON was read and answered by the error body
C5_Witness ==
    /\ pc = "done"
    /\ ~streamRequested
    /\ resp.StatusCode = StatusOK
    /\ responseBody = << "1", "x" >>
    /\ w.body = << InvalidJSONResponse >>

\* C6: in StreamRelay, once the status line or a body byte is sent, the headers
\* delivered to the caller have Content-Type text/event-stream, Cache-Control
\* no-cache and Connection keep-alive.
C6_StreamHeadersDelivered ==
    (relay = "StreamRelay" /\ canFlush = "yes" /\ w.wroteHeader)
        => /\ HeaderGet(w.sent, "Content-Type") = TextEventStream
           /\ HeaderGet(w.sent, "Cache-Control") = NoCache
           /\ HeaderGet(w.sent, "Connection") = KeepAlive

\* C7: when the stream was requested, the upstream answered 200 and the writer
\* cannot flush, the caller has status 500 and the error body.
C7_UnsupportedGets500 ==
    (relay = "StreamRelay" /\ canFlush = "no")
        => /\ w.status = StatusInternalServerError
           /\ w.body = << StreamingUnsupported >>

\* C8 as stated: every upstream request carries anthropic-version 2023-06-01.
C8_FixedVersion ==
    proxyReq.built => HeaderGet(proxyReq.Header, "anthropic-version") = anthropicVersion

\* C8 as amended: every upstream request carries exactly one anthropic-version
\* value: 2023-06-01 when the inbound request has no anthropic-version header,
\* and otherwise the last value the caller sent for it.
C8_VersionDefault ==
    proxyReq.built
        => /\ "Anthropic-Version" \in DOMAIN proxyReq.Header
           /\ proxyReq.Header["Anthropic-Version"] =
                 << IF "Anthropic-Version" \in DOMAIN rHeader
                    THEN Last(rHeader["Anthropic-Version"])
                    ELSE anthropicVersion >>

\* a request without the header was sent upstream with the fixed value
C8_Witness ==
    /\ upstreamCalls = 1
    /\ "Anthropic-Version" \notin DOMAIN rHeader
    /\ "X-Api-Key" \in DOMAIN rHeader
    /\ proxyReq.Header["Anthropic-Version"] = << anthropicVersion >>

ForwardedNames == { "Authorization", "X-Api-Key", "Anthropic-Version", "Anthropic-Beta" }

C10_StreamComplete ==
    (/\ pc = "done"
     /\ relay = "StreamRelay"
     /\ canFlush = "yes"
     /\ readErr = "EOF"
     /\ ~writeErr)
        => /\ Concat(w.body) = resp.Body
           /\ \A i \in 1..Len(w.body) : w.body[i].src = "upstream"

\* a body longer than the buffer was streamed to its end in three chunks
C10_Witness ==
    /\ pc = "done"
    /\ relay = "StreamRelay"
    /\ readErr = "EOF"
    /\ ~writeErr
    /\ Len(resp.Body) > BufferSize
    /\ Len(w.body) = 3


IsPrefix(p, q) == Len(p) <= Len(q) /\ SubSeq(q, 1, Len(p)) = p

\* the bytes read so far from the upstream body
ReadSoFar == SubSeq(resp.Body, 1, upPos)

\* the streaming branch, with a writer that is not known to lack http.Flusher
\* (main.go:448-478)
Streaming == relay = "StreamRelay" /\ canFlush # "no"

\* C11: in every state of StreamRelay (the stream loop, main.go:448-478) the
\* bytes written to the caller are a prefix of the bytes read from the upstream,
\* in the same order, and the bytes read and not yet written are at most one
\* chunk (the last read, at most the size of the buffer).
C11_WrittenPrefixOfRead ==
    Streaming
        => /\ IsPrefix(Concat(w.body), ReadSoFar)
           /\ upPos - Len(Concat(w.body)) <= BufferSize
           /\ upPos - Len(Concat(w.body)) \in { 0, n }
           /\ \A i \in 1..Len(w.body) : w.body[i].src = "upstream"

\* a second chunk is read while the first one is written
C11_Witness ==
    /\ relay = "StreamRelay"
    /\ pc = "streamWrite"
    /\ Len(w.body) = 1
    /\ n = BufferSize
    /\ upPos - Len(Concat(w.body)) = BufferSize

\* C12: whenever the loop is about to read from the upstream, every byte read
\* before has been written to the caller and every chunk written has been
\* flushed; a chunk is flushed as soon as it is written.
C12_FlushedBeforeNextRead ==
    /\ (Streaming /\ pc = "streamRead")
          => /\ Concat(w.body) = ReadSoFar
             /\ w.flushed = Len(w.body)
    /\ Streaming => w.flushed = Len(w.body)

\* the first chunk is with the caller while the rest of the body is still to come
C12_Witness ==
    /\ relay = "StreamRelay"
    /\ pc = "streamRead"
    /\ w.flushed = 1
    /\ upPos < Len(resp.Body)

\* C13: when a stream was requested, the upstream answered another status than
\* 200 and its body was read, the relay is BufferedRelay, the caller has the
\* upstream's status and the body was written in one write, as it is, JSON or not.
C13_StreamErrorBuffered ==
    (/\ pc = "done"
     /\ streamRequested
     /\ resp.StatusCode \notin { 0, StatusOK }
     /\ readErr = "nil")
        => /\ relay = "BufferedRelay"
           /\ w.status = resp.StatusCode
           /\ w.body = << UpstreamChunk(resp.Body) >>
           /\ w.flushed = 0

\* a 429 with a body that is not JSON was relayed whole to a caller that asked
\* for a stream
C13_Witness ==
    /\ pc = "done"
    /\ streamRequested
    /\ resp.StatusCode = 429
    /\ resp.Body = << "x", "1", "x" >>
    /\ w.status = 429
    /\ w.body = << UpstreamChunk(resp.Body) >>


InvalidJSONRequest == ErrorBody("Invalid JSON request body")
UnreadableRequest == ErrorBody("Failed to read request body")

\* C14: the handler never panics.
C14_NeverPanics == pc # "panic"

\* C15: when the handling of an admitted request has finished and the body that
\* was read is not a JSON mapping, the caller has status 400 and the error body,
\* and no upstream call was made.
C15_NotAMappingGets400 ==
    (/\ Finished
     /\ admitted
     /\ w.body # << UnreadableRequest >>
     /\ rBody.kind # "object")
        => /\ pc = "done"
           /\ w.status = StatusBadRequest
           /\ w.body = << InvalidJSONRequest >>
           /\ upstreamCalls = 0

\* the stream field of a body, as the claim reads it
CallerWantsStream ==
    /\ rBody.kind = "object"
    /\ "stream" \in DOMAIN rBody.fields
    /\ rBody.fields["stream"] = JTrue

\* C16: the payload of the upstream request is a mapping whose stream field is
\* present, boolean and equal to streamRequested, and streamRequested is true
\* exactly when the caller's stream field is present and is the boolean true.
C16_StreamFieldNormalized ==
    proxyReq.built
        => /\ proxyReq.Body.kind = "object"
           /\ "stream" \in DOMAIN proxyReq.Body.fields
           /\ proxyReq.Body.fields["stream"] = (IF streamRequested THEN JTrue ELSE JFalse)
           /\ streamRequested <=> CallerWantsStream

\* a body with stream 1 went upstream with stream false
C16_Witness ==
    /\ upstreamCalls = 1
    /\ rBody.fields = WithStream(NoFields, JNumber("1"))
    /\ proxyReq.Body.fields["stream"] = JFalse
    /\ ~streamRequested

\* C17: every field other than stream is in the upstream payload if and only if
\* it is in the caller's body, with the same value.
C17_OtherFieldsUnchanged ==
    proxyReq.built
        => /\ proxyReq.Body.kind = "object"
           /\ DOMAIN proxyReq.Body.fields \ { "stream" } = DOMAIN rBody.fields \ { "stream" }
           /\ \A k \in DOMAIN rBody.fields \ { "stream" } :
                 proxyReq.Body.fields[k] = rBody.fields[k]

\* C18: normalizing the payload that was sent upstream gives the same payload
\* and the same streamRequested flag.
C18_NormalizeIdempotent ==
    proxyReq.built
        => LET data == Unmarshal(proxyReq.Body)
           IN  /\ ~data.err
               /\ ~data.isNil
               /\ StreamRequested(data) = streamRequested
               /\ Marshal(NormalizedData(data)) = proxyReq.Body

\* a body that normalization changed (stream "yes", a number re-encoded) went
\* upstream
C18_Witness ==
    /\ upstreamCalls = 1
    /\ "id" \in DOMAIN rBody.fields
    /\ "stream" \in DOMAIN rBody.fields
    /\ rBody.fields["stream"] = JString("yes")
    /\ proxyReq.Body.fields # rBody.fields


\* C19: when the request has a non-empty x-api-key, the extracted credential is
\* that value and the admission decision is the validation of that value,
\* whatever the Authorization header holds.
C19_ApiKeyFirst ==
    (pc # "admission" /\ HeaderGet(rHeader, "x-api-key") # EmptyString)
        => /\ apiKey = HeaderGet(rHeader, "x-api-key")
           /\ admitted = validateAPIKey(HeaderGet(rHeader, "x-api-key"), allowedAPIKeysStr)
           /\ pc = (IF admitted THEN "readBody" ELSE "done")

\* x-api-key b is rejected although the bearer token a is on the allow-list
C19_Witness ==
    /\ pc = "done"
    /\ HeaderGet(rHeader, "x-api-key") = << "b" >>
    /\ HeaderGet(rHeader, "Authorization") = BearerPrefix \o << "a" >>
    /\ allowedAPIKeysStr = << "a" >>
    /\ apiKey = << "b" >>
    /\ w.status = StatusUnauthorized

\* C20: once admission has run on a request whose credential is empty, the
\* request is rejected with 401, whatever ALLOWED_API_KEYS holds.
C20_EmptyRejected ==
    (pc # "admission" /\ apiKey = EmptyString)
        => /\ ~admitted
           /\ pc = "done"
           /\ w.status = StatusUnauthorized
           /\ w.body = << Unauthorized >>

\* a request without a credential is rejected under the allow-list "a,,a"
C20_Witness ==
    /\ pc = "done"
    /\ allowedAPIKeysStr = << "a", ",", ",", "a" >>
    /\ DOMAIN rHeader = {}
    /\ apiKey = EmptyString
    /\ ~admitted

\* the entries of a comma-separated list: the pieces that reach from the start
\* or from a comma to the next comma or to the end, each trimmed
AllowListEntries(s) ==
    { TrimSpace(SubSeq(s, i, j)) :
        << i, j >> \in { q \in (1..(Len(s) + 1)) \X (0..Len(s)) :
                          /\ q[2] >= q[1] - 1
                          /\ q[1] = 1 \/ s[q[1] - 1] = ","
                          /\ q[2] = Len(s) \/ s[q[2] + 1] = ","
                          /\ \A x \in q[1]..q[2] : s[x] # "," } }

\* C21 as stated: with an allow-list configured, the credential is accepted if
\* and only if it is equal to one of the trimmed entries of the allow-list.
C21_ExactMatch ==
    (pc # "admission" /\ allowedAPIKeysStr # EmptyString)
        => (admitted <=> apiKey \in AllowListEntries(allowedAPIKeysStr))

\* C21 as amended: with an allow-list configured, the credential is accepted if
\* and only if it is not empty and is equal to one of the trimmed entries of the
\* allow-list (an empty credential is rejected even when the list has an empty
\* entry); the handler goes beyond admission, and builds and sends an upstream
\* request, only for an accepted credential.
C21_NonEmptyExactMatch ==
    /\ (pc # "admission" /\ allowedAPIKeysStr # EmptyString)
          => (admitted <=> (/\ apiKey # EmptyString
                            /\ apiKey \in AllowListEntries(allowedAPIKeysStr)))
    /\ (pc \notin { "admission", "done" } \/ proxyReq.built \/ upstreamCalls > 0)
          => admitted

\* the bearer token a is accepted under the allow-list ", a "
C21_Witness ==
    /\ pc = "readBody"
    /\ allowedAPIKeysStr = << ",", " ", "a", " " >>
    /\ HeaderGet(rHeader, "x-api-key") = EmptyString
    /\ apiKey = << "a" >>
    /\ admitted

\* the request carries a credential: a non-empty x-api-key, or an Authorization
\* of the bearer scheme with a non-empty token
CarriesCredential ==
    \/ HeaderGet(rHeader, "x-api-key") # EmptyString
    \/ /\ HasPrefix(HeaderGet(rHeader, "Authorization"), BearerPrefix)
       /\ Len(HeaderGet(rHeader, "Authorization")) > Len(BearerPrefix)

\* C22: with ALLOWED_API_KEYS unset, once admission has run on a request that
\* carries a non-empty credential in either header, the request is accepted and
\* no response was written.
C22_AcceptedWithoutAllowList ==
    (pc # "admission" /\ allowedAPIKeysStr = EmptyString /\ CarriesCredential)
        => /\ admitted
           /\ apiKey # EmptyString
           /\ w.status # StatusUnauthorized

\* the bearer token bb alone is accepted when no allow-list is set
C22_Witness ==
    /\ pc = "readBody"
    /\ allowedAPIKeysStr = EmptyString
    /\ HeaderGet(rHeader, "x-api-key") = EmptyString
    /\ HeaderGet(rHeader, "Authorization") = BearerPrefix \o << "b", "b" >>
    /\ admitted
    /\ ~w.wroteHeader

\* C23: when client.Do failed, the handler is done, the caller has status 500
\* and the error body that names the cause, exactly one upstream call was made
\* and no response was relayed.
C23_TransportFailureGets500 ==
    doErr # "nil"
        => /\ pc = "done"
           /\ w.status = StatusInternalServerError
           /\ w.body = << ErrorBody(FailedToSend(doErr)) >>
           /\ upstreamCalls = 1
           /\ resp = NoResponse
           /\ relay = "none"

\* the connection to the upstream was refused
C23_Witness ==
    /\ pc = "done"
    /\ doErr = "connection refused"
    /\ proxyReq.built
    /\ upstreamCalls = 1
    /\ w.status = StatusInternalServerError

\* the timeout of the client has passed, before the response arrived or while
\* its body was read
DeadlineExceeded == doErr = "Client.Timeout exceeded" \/ readErr = "deadline"

\* C24: when the timeout of the client has passed, in client.Do, in the read of
\* the buffered body or in a read of the stream loop, and the handler has
\* returned, the caller has a server-error status and the proxy's error body.
C24_DeadlineSurfacesServerError ==
    (pc = "done" /\ DeadlineExceeded)
        => /\ w.status = StatusInternalServerError
           /\ w.body # << >>
           /\ Last(w.body).src = "proxy"

\* C25: the phases of one request run in the order admission, normalization,
\* dispatch, relay, each only after the one before succeeded: the body is read
\* and parsed only for an admitted request, the upstream request is built only
\* from a body that was read and parsed, the upstream is called only with a
\* built request, and a relay is entered only with the response of the one
\* call.  A rejected request is answered 401 and its body is never read or
\* parsed, malformed or not.
C25_PhaseOrder ==
    /\ pc = "admission" => (rBody = NotRead /\ ~w.wroteHeader)
    /\ (rBody # NotRead \/ requestData # NoData \/ pc \in { "readBody", "normalize" })
          => admitted
    /\ (proxyReq.built \/ pc \in { "build", "dispatch" })
          => /\ admitted
             /\ rBody = rBodyOnWire
             /\ ~Unmarshal(rBody).err
             /\ requestData = NormalizedData(Unmarshal(rBody))
    /\ upstreamCalls > 0 => proxyReq.built
    /\ (relay # "none" \/ resp # NoResponse)
          => /\ upstreamCalls = 1
             /\ doErr = "nil"
             /\ resp.StatusCode # 0
    /\ (\E i \in 1..Len(w.body) : w.body[i].src = "upstream") => relay # "none"
    /\ (pc # "admission" /\ ~admitted)
          => /\ pc = "done"
             /\ w.status = StatusUnauthorized
             /\ w.body = << Unauthorized >>
             /\ rBody = NotRead
             /\ requestData = NoData

\* a request with a credential that is not on the allow-list and a malformed
\* body is answered 401
C25_Witness ==
    /\ pc = "done"
    /\ allowedAPIKeysStr # EmptyString
    /\ apiKey = k3
    /\ rBodyOnWire = Document("malformed", NoFields)
    /\ rBody = NotRead
    /\ w.status = StatusUnauthorized

\* the request s is where it would be had it been handled alone: its admission
\* decision, its upstream request and the response of its caller are those its
\* own headers, its own body and the upstream's answer to it determine
HandledAlone(s) ==
    LET data == Unmarshal(s.rBodyOnWire)
        committed == CommitResponse(NewResponseWriter, s.resp)
    IN  /\ s.pc # "admission"
              => /\ s.apiKey = extractAPIKey(s.rHeader)
                 /\ s.admitted = validateAPIKey(s.apiKey, allowedAPIKeysStr)
        /\ (s.pc # "admission" /\ ~s.admitted)
              => s.w = RespondError(NewResponseWriter, StatusUnauthorized,
                                    "Unauthorized: Invalid API key")
        /\ s.rBody \in { NotRead, s.rBodyOnWire }
        /\ s.pc \in { "build", "dispatch" } \/ s.proxyReq.built
              => /\ s.streamRequested = StreamRequested(data)
                 /\ s.requestData = NormalizedData(data)
        /\ s.proxyReq.built
              => s.proxyReq = [built |-> TRUE, Method |-> "POST", Path |-> "/v1/messages",
                               Header |-> ProxyHeaders(s.rHeader),
                               Body |-> Marshal(NormalizedData(data))]
        /\ s.relay # "none"
              => /\ s.relay = ChooseRelay(StreamRequested(data), s.resp.StatusCode)
                 /\ s.w.status = s.resp.StatusCode
                 /\ s.w.sent = committed.sent
        /\ (s.relay = "BufferedRelay" /\ s.pc = "done" /\ s.readErr = "nil")
              => s.w = BufferedResponse(committed, StreamRequested(data),
                                        s.resp.StatusCode, s.resp.Body)
        /\ (s.relay = "StreamRelay" /\ s.canFlush # "no")
              => /\ IsPrefix(Concat(s.w.body), SubSeq(s.resp.Body, 1, s.upPos))
                 /\ s.upPos - Len(Concat(s.w.body)) \in { 0, s.n }
                 /\ s.w.flushed = Len(s.w.body)
        /\ (s.relay = "StreamRelay" /\ s.pc = "done" /\ s.readErr = "EOF" /\ ~s.writeErr)
              => Concat(s.w.body) = s.resp.Body

\* C26: with two requests in flight and their steps interleaved in any order,
\* each of the two is at every moment where it would be had it been handled
\* alone, the one that is running and the one that waits (for the upstream,
\* for its caller, for the processor).
C26_RequestsIndependent == HandledAlone(Running) /\ HandledAlone(other)

\* both requests are in the middle of their relays, with different upstream
\* responses: one has streamed its first chunk, the other has read its body
C26_Witness ==
    /\ pc = "streamRead"
    /\ Len(w.body) = 1
    /\ upPos < Len(resp.Body)
    /\ other.pc = "bufferedWrite"
    /\ other.resp.StatusCode = StatusOK
    /\ other.resp.Body # resp.Body
    /\ ~other.streamRequested

\* C27: when BufferedRelay has ended with a body that was read and, where it is
\* checked, is JSON, the caller has the upstream's status, every header of the
\* upstream response with all its values except that Content-Type is
\* application/json alone, and one body chunk, the upstream body.
C27_BufferedRelayFaithful ==
    (/\ pc = "done"
     /\ relay = "BufferedRelay"
     /\ readErr = "nil"
     /\ ~InvalidUpstreamJSON(streamRequested, resp.StatusCode, resp.Body))
        => /\ w.status = resp.StatusCode
           /\ DOMAIN w.sent = DOMAIN resp.Header \cup { "Content-Type" }
           /\ \A k \in DOMAIN resp.Header \ { "Content-Type" } : w.sent[k] = resp.Header[k]
           /\ w.sent["Content-Type"] = << ApplicationJSON >>
           /\ w.body = << UpstreamChunk(resp.Body) >>
           /\ Concat(w.body) = resp.Body

\* a non-streaming request got 200, a JSON body and a header with two values
C27_Witness ==
    /\ pc = "done"
    /\ ~streamRequested
    /\ resp.StatusCode = StatusOK
    /\ resp.Body = << "1", "1" >>
    /\ HeaderGet(resp.Header, "Content-Type") = << "t" >>
    /\ w.status = StatusOK
    /\ HeaderGet(w.sent, "Content-Type") = ApplicationJSON
    /\ HeaderGet(w.sent, "X-Up") = << "u" >>
    /\ w.body = << UpstreamChunk(<< "1", "1" >>) >>

\* C28: once a write of the stream loop has failed the handler has returned and
\* no step of it is left to take: the chunk that failed is the last one read
\* (nothing was read after it), it was not written again, and the chunks
\* flushed are those written before it.
C28_WriteFailureEndsStream ==
    writeErr
        => /\ pc = "done"
           /\ ~ENABLED Next
           /\ relay = "StreamRelay"
           /\ n > 0
           /\ upPos - Len(Concat(w.body)) = n
           /\ IsPrefix(Concat(w.body), ReadSoFar)
           /\ w.flushed = Len(w.body)

\* the write of the second chunk failed while the upstream had more to send
C28_Witness ==
    /\ writeErr
    /\ pc = "done"
    /\ Len(w.body) = 1
    /\ readErr = "nil"
    /\ upPos < Len(resp.Body)

\* the messages of the error responses of the handler
ErrorMessages ==
    { "Unauthorized: Invalid API key", "Failed to read request body",
      "Invalid JSON request body", "Failed to process request",
      "Failed to create proxy request", "Invalid JSON in Claude API response",
      "Streaming not supported by server" }
    \cup { FailedToSend(cause) : cause \in DoErrors }

\* the bytes are the text of a JSON mapping with the one field error, whose
\* value is one of the messages, and the newline the encoder ends with
IsErrorMapping(bytes) ==
    /\ Len(bytes) = 6
    /\ bytes[1] = "{"
    /\ bytes[2] = "error"
    /\ bytes[3] = ":"
    /\ bytes[4] \in ErrorMessages
    /\ bytes[5] = "}"
    /\ bytes[6] = "\n"

\* the handler has answered with an error of its own
ProxyError == \E i \in 1..Len(w.body) : w.body[i].src = "proxy"

\* C29: when the handler wrote an error of its own, what it wrote to the caller
\* is that error alone, in one write: the text of a JSON mapping with the one
\* field error holding a string; and the handler has returned.  Each error
\* status the handler sets comes with such a body.
C29_ErrorBodyShape ==
    /\ ProxyError
          => /\ Len(w.body) = 1
             /\ IsErrorMapping(Concat(w.body))
             /\ pc = "done"
    /\ (pc = "done" /\ w.status \in { StatusBadRequest, StatusUnauthorized,
                                       StatusInternalServerError })
          => ProxyError

\* the construction of the upstream request failed
C29_Witness ==
    /\ pc = "done"
    /\ admitted
    /\ upstreamCalls = 0
    /\ w.status = StatusInternalServerError
    /\ Concat(w.body) = << "{", "error", ":", "Failed to create proxy request", "}", "\n" >>

\* the router answered the request itself: no handler ran
AnsweredByRouter ==
    \/ w.status \in { StatusNotFound, StatusMethodNotAllowed }
    \/ \E i \in 1..Len(w.body) : w.body[i].src = "router"

\* C30: a POST to /api/v1/messages, the path of the README, is handed to
\* claudeProxyHandler: the router does not answer it itself.
C30_ReadmePathServed ==
    (pc # "route" /\ rRequestLine = [Method |-> "POST", Path |-> "/api/v1/messages"])
        => ~AnsweredByRouter

\* What the program does: a POST to /v1/messages, the path main.go registers,
\* is handed to claudeProxyHandler, and the upstream request the handler builds
\* is a POST to /v1/messages of the upstream; an upstream request is built and
\* sent for no other request line.  A request to /api/v1/messages matches no
\* route: the router answers 404, no handler runs and nothing is sent upstream.
RegisteredPathServed ==
    /\ (pc # "route" /\ rRequestLine = PostMessages)
          => /\ ~AnsweredByRouter
             /\ pc = "done" => w.wroteHeader
    /\ (proxyReq.built \/ upstreamCalls > 0 \/ pc \notin { "route", "health", "done" })
          => rRequestLine = PostMessages
    /\ upstreamCalls > 0 => proxyReq.built
    /\ proxyReq.built => (proxyReq.Method = "POST" /\ proxyReq.Path = "/v1/messages")
    /\ (pc # "route" /\ rRequestLine.Path = "/api/v1/messages")
          => /\ pc = "done"
             /\ w.status = StatusNotFound
             /\ \A i \in 1..Len(w.body) : w.body[i].src = "router"
             /\ apiKey = EmptyString
             /\ ~proxyReq.built
             /\ upstreamCalls = 0

\* a POST to /v1/messages went through the router, was sent to the upstream and
\* answered
RegisteredPathWitness ==
    /\ pc = "done"
    /\ rRequestLine = PostMessages
    /\ admitted
    /\ upstreamCalls = 1
    /\ proxyReq.Path = "/v1/messages"
    /\ resp.StatusCode = StatusOK
    /\ Concat(w.body) = resp.Body
    /\ resp.Body # << >>

(***************************************************************************)
(* main (main.go:143-187): the goroutine that runs server.ListenAndServe,  *)
(* the signals the process is sent, the select of main, server.Shutdown    *)
(* and the return of main.  The requests being served are counted, not     *)
(* followed through their handler.                                         *)
(***************************************************************************)
MaxSignals == 2    \* signals sent to the process
MaxActive == 2     \* requests being served at a time

shutdownTimeout == 30

\* main.go:165: the signals signalChan is notified of
Signals == { "SIGINT", "SIGTERM" }

\* main.go:156, server.ListenAndServe returns an error that is not
\* http.ErrServerClosed: the listener could not be opened, or Accept failed.
\* Once Shutdown was called the server returns http.ErrServerClosed only.
ListenAndServeFails ==
    /\ process.pc # "returned"
    /\ process.listener = "ListenAndServe"
    /\ process.shutdownCalls = 0
    /\ process' = [process EXCEPT !.listener = "cancel", !.listenErr = "other"]
    /\ UNCHANGED handlerVars

\* main.go:157-158: the goroutine logs the error and cancels ctx
Cancel ==
    /\ process.pc # "returned"
    /\ process.listener = "cancel"
    /\ process' = [process EXCEPT !.listener = "end", !.ctx = "canceled"]
    /\ UNCHANGED handlerVars

\* main.go:156, server.ListenAndServe returns http.ErrServerClosed after
\* Shutdown was called: the goroutine ends without a call of cancel
ListenAndServeClosed ==
    /\ process.pc # "returned"
    /\ process.listener = "ListenAndServe"
    /\ process.shutdownCalls > 0
    /\ process' = [process EXCEPT !.listener = "end", !.listenErr = "ErrServerClosed"]
    /\ UNCHANGED handlerVars

\* main.go:163-165: the process is sent a signal; it is put into signalChan,
\* which holds one signal, or dropped when signalChan is full
Notify ==
    /\ process.pc # "returned"
    /\ process.delivered < MaxSignals
    /\ \E s \in Signals :
          process' = [process EXCEPT
                         !.delivered = @ + 1,
                         !.signalChan = IF @ = << >> THEN << s >> ELSE @]
    /\ UNCHANGED handlerVars

\* the server accepts a request and starts its handler
Accept ==
    /\ process.pc # "returned"
    /\ process.listener = "ListenAndServe"
    /\ process.shutdownCalls = 0
    /\ process.active < MaxActive
    /\ process' = [process EXCEPT !.active = @ + 1]
    /\ UNCHANGED handlerVars

\* the handler of a request returns
Served ==
    /\ process.pc # "returned"
    /\ process.active > 0
    /\ process' = [process EXCEPT !.active = @ - 1]
    /\ UNCHANGED handlerVars

\* a select that has a default case: main goes on without an event
SelectDefault ==
    /\ process.pc = "select"
    /\ process' = [process EXCEPT !.pc = "shutdown"]
    /\ UNCHANGED handlerVars

\* main.go:168-170: case sig := <-signalChan
SelectSignal ==
    /\ process.pc = "select"
    /\ process.signalChan # << >>
    /\ process' = [process EXCEPT !.pc = "shutdown",
                                  !.sig = Head(process.signalChan),
                                  !.signalChan = Tail(@)]
    /\ UNCHANGED handlerVars

\* main.go:171-172: case <-ctx.Done()
SelectDone ==
    /\ process.pc = "select"
    /\ process.ctx = "canceled"
    /\ process' = [process EXCEPT !.pc = "shutdown"]
    /\ UNCHANGED handlerVars

\* main.go:176-181: server.Shutdown is called with a context of shutdownTimeout
Shutdown ==
    /\ process.pc = "shutdown"
    /\ process' = [process EXCEPT !.pc = "Shutdown",
                                  !.shutdownCalls = @ + 1,
                                  !.shutdownCtx = shutdownTimeout]
    /\ UNCHANGED handlerVars

\* main.go:181-187, Shutdown returns nil when no request is being served; main
\* returns, and its deferred calls cancel both contexts
ShutdownReturns ==
    /\ process.pc = "Shutdown"
    /\ process.active = 0
    /\ process' = [process EXCEPT !.pc = "returned", !.shutdownErr = "nil",
                                  !.ctx = "canceled"]
    /\ UNCHANGED handlerVars

\* main.go:181-187, the deadline of shutdownCtx passes while requests are
\* being served: Shutdown returns the error of the context and main returns
ShutdownDeadline ==
    /\ process.pc = "Shutdown"
    /\ process.active > 0
    /\ process' = [process EXCEPT !.pc = "returned",
                                  !.shutdownErr = "context deadline exceeded",
                                  !.ctx = "canceled"]
    /\ UNCHANGED handlerVars

\* the process is up and no request is followed
InitMain ==
    /\ process = Serving
    /\ allowedAPIKeysStr = EmptyString
    /\ claudeURL = defaultClaudeURL
    /\ rRequestLine = PostMessages
    /\ rHeader = EmptyHeader
    /\ rBodyOnWire = Document("object", NoFields)
    /\ other = NoOther
    /\ pc = "done"
    /\ Fresh

\* the steps of main
MainStep ==
    \/ SelectSignal
    \/ SelectDone
    \/ Shutdown
    \/ ShutdownReturns
    \/ ShutdownDeadline

NextMain ==
    \/ ListenAndServeFails
    \/ Cancel
    \/ ListenAndServeClosed
    \/ Notify
    \/ Accept
    \/ Served
    \/ MainStep

\* main and the goroutine keep running: a step of theirs that stays possible
\* is taken.  Nothing is assumed of the signals, of the listener's failures or
\* of the requests.
SpecMain == InitMain /\ [][NextMain]_vars /\ WF_vars(MainStep) /\ WF_vars(Cancel)

(***************************************************************************)
(* The health check                                                        *)
(***************************************************************************)
GetHealth == [Method |-> "GET", Path |-> "/health"]

\* C31: a GET /health is answered with status 200, Content-Type
\* application/json and the body {"status":"ok"}, whatever credential the
\* request carries and whatever the allow-list is; no credential is looked at,
\* no upstream request is built and no upstream call is made for it.
C31_HealthAlwaysOk ==
    rRequestLine = GetHealth
        => /\ pc \in { "route", "health", "done" }
           /\ upstreamCalls = 0
           /\ ~proxyReq.built
           /\ ~admitted /\ apiKey = EmptyString
           /\ pc = "done"
                 => /\ w.status = StatusOK
                    /\ HeaderGet(w.sent, "Content-Type") = ApplicationJSON
                    /\ Concat(w.body) = << "{", "status", ":", "ok", "}", "\n" >>

\* a health check with a credential that is not on the configured allow-list
\* was answered
C31_Witness ==
    /\ pc = "done"
    /\ rRequestLine = GetHealth
    /\ allowedAPIKeysStr = << "k", "1", ",", " ", "k", "2" >>
    /\ HeaderGet(rHeader, "X-Api-Key") = k3
    /\ w.status = StatusOK
    /\ w.body = << HealthBody >>

(***************************************************************************)
(* Termination                                                             *)
(***************************************************************************)
InRelay ==
    pc \in { "received", "bufferedRead", "bufferedWrite",
             "streamSetup", "streamRead", "streamWrite" }

\* C32: the handling of every request ends: from every state in which the
\* upstream response was received, is being read or is being relayed, the
\* handler reaches its return.  The stream loop is left on the first read that
\* returns end-of-stream or an error and on the first write that fails: it
\* goes round again only after a read without error and a write that
\* succeeded.
C32_Terminates ==
    /\ InRelay ~> (pc = "done")
    /\ [][(pc = "streamWrite" /\ (readErr # "nil" \/ writeErr')) => pc' = "done"]_vars
    /\ [](pc = "streamRead" => (readErr = "nil" /\ ~writeErr))

\* the stream loop went round once and was then ended by the deadline, with a
\* part of the upstream body unread
C32_Witness ==
    /\ pc = "done"
    /\ relay = "StreamRelay"
    /\ readErr = "deadline"
    /\ Len(w.body) = 1
    /\ upPos < Len(resp.Body)

(***************************************************************************)
(* The commit of the status                                                *)
(***************************************************************************)
\* C33: the handler calls WriteHeader with one status per request: after the
\* status was committed, no later call of WriteHeader names another status.
C33_StatusCommittedOnce ==
    \A i \in 1..Len(w.superfluous) : w.superfluous[i] = w.status

\* the answer to the caller is the proxy's own error body in place of the
\* upstream response
ReplacedByError ==
    /\ pc = "done"
    /\ resp # NoResponse
    /\ w.body \in { << InvalidJSONResponse >>, << StreamingUnsupported >> }

\* C34: when the proxy answered with its own error body in place of the
\* upstream response, no header of the upstream response, with the upstream's
\* values, is among the headers sent to the caller.
C34_NoUpstreamHeaderOnError ==
    ReplacedByError
        => \A k \in DOMAIN resp.Header :
              k \notin DOMAIN w.sent \/ w.sent[k] # resp.Header[k]

(***************************************************************************)
(* The last chunk of a stream                                              *)
(***************************************************************************)
\* C35: when the stream loop has ended without a failed write, whatever ended
\* it (end-of-stream or a read error, with or without bytes in the same
\* read), every byte that was read from the upstream was written to the caller
\* and flushed; the bytes of the last read are the last chunk written.
C35_ReadBytesDelivered ==
    (pc = "done" /\ Streaming /\ ~writeErr)
        => /\ Concat(w.body) = ReadSoFar
           /\ w.flushed = Len(w.body)
           /\ n > 0 => /\ w.body # << >>
                       /\ Last(w.body) = UpstreamChunk(SubSeq(buffer, 1, n))

\* after a first chunk, a read returned one more byte together with an error,
\* before the end of the upstream body
C35_Witness ==
    /\ pc = "done"
    /\ Streaming
    /\ ~writeErr
    /\ readErr = "err"
    /\ n = 1
    /\ upPos < Len(resp.Body)
    /\ Len(w.body) = 2

(***************************************************************************)
(* A failed read of the upstream body in BufferedRelay                     *)
(***************************************************************************)
\* C36: in BufferedRelay, when the read of the upstream body failed, by a
\* broken connection or by the deadline, the handler has returned, nothing was
\* written to the caller's body, neither a byte of the upstream nor an error
\* body, and the caller has the status and the headers that were committed for
\* the upstream response.
C36_BufferedReadFailureSilent ==
    (relay = "BufferedRelay" /\ readErr \in ReadFailures)
        => /\ pc = "done"
           /\ w.body = << >>
           /\ w.flushed = 0
           /\ w.status = resp.StatusCode
           /\ w.sent = CommitResponse(NewResponseWriter, resp).sent
           /\ w.superfluous = << >>
           /\ responseBody = << >>

\* the deadline passed while the body of a 429 with its own headers was read
C36_Witness ==
    /\ pc = "done"
    /\ relay = "BufferedRelay"
    /\ readErr = "deadline"
    /\ resp.StatusCode = 429
    /\ resp.Body # << >>
    /\ HeaderGet(w.sent, "X-Up") = << "u" >>
    /\ w.status = 429
    /\ w.body = << >>

(***************************************************************************)
(* A failed read of the request body                                       *)
(***************************************************************************)
\* the handler has returned for an admitted request whose body it could not read
RequestBodyUnread == pc = "done" /\ admitted /\ rBody = NotRead

\* C37: when the read of the body of an admitted request failed, the caller
\* has status 400 and the one-field error body
\* {"error":"Failed to read request body"}; the body was not parsed, no
\* upstream request was built and no upstream call was made.
C37_UnreadableBodyGets400 ==
    RequestBodyUnread
        => /\ w.status = StatusBadRequest
           /\ w.body = << UnreadableRequest >>
           /\ IsErrorMapping(Concat(w.body))
           /\ w.superfluous = << >>
           /\ requestData = NoData
           /\ ~proxyReq.built
           /\ upstreamCalls = 0
           /\ resp = NoResponse

\* the read of a well-formed body that asks for a stream failed
C37_Witness ==
    /\ RequestBodyUnread
    /\ rBodyOnWire.kind = "object"
    /\ "stream" \in DOMAIN rBodyOnWire.fields
    /\ w.status = StatusBadRequest
    /\ Len(w.body) = 1

(***************************************************************************)
(* The Authorization header                                                *)
(***************************************************************************)
\* the value of Authorization is the seven characters "Bearer " and more
IsBearer(auth) ==
    /\ Len(auth) > 7
    /\ auth[1] = "B" /\ auth[2] = "e" /\ auth[3] = "a" /\ auth[4] = "r"
    /\ auth[5] = "e" /\ auth[6] = "r" /\ auth[7] = " "

\* C38: once admission has run on a request whose x-api-key is absent or
\* empty, the credential is what follows "Bearer " in the Authorization header
\* when the value starts with exactly that, and is empty for every other value
\* (bearer a, Basic a, a bare token, Bearer alone, no header); with an empty
\* credential the request is rejected with 401 whatever ALLOWED_API_KEYS holds,
\* the empty setting included.
C38_BearerPrefixOnly ==
    (pc # "admission" /\ HeaderGet(rHeader, "x-api-key") = EmptyString)
        => LET auth == HeaderGet(rHeader, "Authorization")
           IN  /\ IsBearer(auth) => apiKey = SubSeq(auth, 8, Len(auth))
               /\ ~IsBearer(auth)
                     => /\ apiKey = EmptyString
                        /\ ~admitted
                        /\ pc = "done"
                        /\ w.status = StatusUnauthorized
                        /\ w.body = << Unauthorized >>

\* a request with Authorization: bearer a and no x-api-key was rejected while no
\* allow-list was configured
C38_Witness ==
    /\ pc = "done"
    /\ allowedAPIKeysStr = EmptyString
    /\ "X-Api-Key" \notin DOMAIN rHeader
    /\ HeaderGet(rHeader, "Authorization")
          = << "b", "e", "a", "r", "e", "r", " ", "a" >>
    /\ apiKey = EmptyString
    /\ w.status = StatusUnauthorized

(***************************************************************************)
(* An allow-list without entries                                           *)
(***************************************************************************)
\* the setting is not empty and holds nothing but commas and white space
BlankAllowList ==
    /\ allowedAPIKeysStr # EmptyString
    /\ \A i \in 1..Len(allowedAPIKeysStr) :
          allowedAPIKeysStr[i] = "," \/ IsSpace(allowedAPIKeysStr[i])

\* C39: once admission has run under a setting of ALLOWED_API_KEYS that is not
\* empty but holds commas and white space only, the request is rejected with
\* 401 whatever its credential; and a request is accepted with a credential
\* that is no entry of the list only when the setting is the empty string.
C39_BlankAllowListRejectsAll ==
    pc # "admission"
        => /\ BlankAllowList
                 => /\ ~admitted
                    /\ pc = "done"
                    /\ w.status = StatusUnauthorized
                    /\ w.body = << Unauthorized >>
           /\ (admitted /\ apiKey \notin AllowListEntries(allowedAPIKeysStr))
                 => allowedAPIKeysStr = EmptyString

\* the credential a was rejected under the setting " ,"
C39_Witness ==
    /\ pc = "done"
    /\ allowedAPIKeysStr = << " ", "," >>
    /\ apiKey = << "a" >>
    /\ ~admitted
    /\ w.status = StatusUnauthorized

(***************************************************************************)
(* The shutdown of the process                                             *)
(***************************************************************************)
\* one of the two events has happened: main took a signal from signalChan, or
\* server.ListenAndServe returned an error other than http.ErrServerClosed
ShutdownCause == process.sig \in Signals \/ process.listenErr = "other"

\* C40: server.Shutdown is called at most once, with a deadline of 30 seconds,
\* and only after main took a signal from signalChan or ListenAndServe failed
\* with an error other than ErrServerClosed: while neither has happened main
\* stays in its select.  When main left the select without a signal, ctx was
\* cancelled by the goroutine.  Main returns only after its one call of
\* Shutdown, and once a signal is in signalChan or ListenAndServe has failed,
\* main calls Shutdown and returns.
C40_ShutdownOnce ==
    /\ [](process.shutdownCalls <= 1)
    /\ [](process.shutdownCalls = 1 <=> process.pc \in { "Shutdown", "returned" })
    /\ [](process.shutdownCalls = 1 => process.shutdownCtx = 30)
    /\ [](~ShutdownCause => (process.pc = "select" /\ process.shutdownCalls = 0))
    /\ []((process.pc # "select" /\ process.sig = "none")
            => (process.listenErr = "other" /\ process.ctx = "canceled"))
    /\ (process.signalChan # << >> \/ process.listenErr = "other")
          ~> (process.pc = "returned" /\ process.shutdownCalls = 1)

\* ListenAndServe failed while a signal was waiting in signalChan: main left
\* its select by ctx.Done(), called Shutdown once and returned when the
\* deadline passed with a request still being served
C40_Witness ==
    /\ process.pc = "returned"
    /\ process.sig = "none"
    /\ process.signalChan # << >>
    /\ process.listenErr = "other"
    /\ process.shutdownCalls = 1
    /\ process.shutdownErr = "context deadline exceeded"

====
